---- MODULE Spec2Model ----
(***************************************************************************)
(* Model of the layout core of html2pptx.py (generator) and of             *)
(* pptx_verify.py (audit).                                                 *)
(*                                                                         *)
(* Units.  Every length is an integer number of EMU (914400 per inch), the *)
(* unit python-pptx stores shape geometry in.  Font sizes are whole        *)
(* points.  A text is a sequence of one-character strings.  Character      *)
(* widths are hundredths of an em; a rendered width is kept in 1/10000 pt  *)
(* (hundredths of em x points x a bold scale in hundredths).  A line count *)
(* is kept in tenths of a line, because a blank paragraph counts 0.4.      *)
(* The Python code computes in binary floating point; the model computes   *)
(* the same expressions exactly.  The two agree except where a comparison  *)
(* is an exact tie in the rationals (a rendered width equal to the usable  *)
(* width, a scale of exactly 0.40), where rounding decides the float.      *)
(***************************************************************************)
EXTENDS Integers, Sequences, FiniteSets, TLC

-----------------------------------------------------------------------------
(* Constants of the two programs                                           *)

EMU_PER_INCH == 914400
\* 1 pt = 12700 EMU
EMU_PER_PT == 12700
\* SLIDE_HEIGHT = 5.625 in
SLIDE_HEIGHT == 5143500
\* CONTENT_LEFT = 0.8 in
CONTENT_LEFT == 731520
\* CONTENT_WIDTH = 8.4 in
CONTENT_WIDTH == 7680960
\* GAP_TIGHT = 0.08 in, GAP_NORMAL = 0.10 in, GAP_SECTION = 0.20 in
GAP_TIGHT == 73152
GAP_NORMAL == 91440
GAP_SECTION == 182880
\* default line spacing 1.2, in tenths
LINE_SPACING == 12
\* 0.20 in of horizontal text-frame margin taken off the box width
FRAME_MARGIN_W == 182880
\* 36 pt, the least usable width, in EMU
MIN_USABLE_WIDTH == 457200
\* 0.10 in added to every estimated height
FRAME_MARGIN_H == 91440
\* hundredths of em
_ARIAL_REGULAR_DEFAULT == 56
\* bold scale 1.08, in hundredths
_ARIAL_BOLD_SCALE == 108

\* The table of the source, but for the grave accent (0.33 em), which a TLA+
\* string cannot hold; no text of this model contains it.
_ARIAL_REGULAR ==
    (" " :> 28) @@ ("!" :> 28) @@ ("\"" :> 35) @@ ("#" :> 56) @@ ("$" :> 56) @@
    ("%" :> 89) @@ ("&" :> 67) @@ ("'" :> 19) @@ ("(" :> 33) @@ (")" :> 33) @@
    ("*" :> 39) @@ ("+" :> 58) @@ ("," :> 28) @@ ("-" :> 33) @@ ("." :> 28) @@
    ("/" :> 28) @@ ("0" :> 56) @@ ("1" :> 56) @@ ("2" :> 56) @@ ("3" :> 56) @@
    ("4" :> 56) @@ ("5" :> 56) @@ ("6" :> 56) @@ ("7" :> 56) @@ ("8" :> 56) @@
    ("9" :> 56) @@ (":" :> 28) @@ (";" :> 28) @@ ("<" :> 58) @@ ("=" :> 58) @@
    (">" :> 58) @@ ("?" :> 56) @@ ("@" :> 102) @@ ("A" :> 67) @@ ("B" :> 67) @@
    ("C" :> 72) @@ ("D" :> 72) @@ ("E" :> 67) @@ ("F" :> 61) @@ ("G" :> 78) @@
    ("H" :> 72) @@ ("I" :> 28) @@ ("J" :> 50) @@ ("K" :> 67) @@ ("L" :> 56) @@
    ("M" :> 83) @@ ("N" :> 72) @@ ("O" :> 78) @@ ("P" :> 67) @@ ("Q" :> 78) @@
    ("R" :> 72) @@ ("S" :> 67) @@ ("T" :> 61) @@ ("U" :> 72) @@ ("V" :> 67) @@
    ("W" :> 94) @@ ("X" :> 67) @@ ("Y" :> 67) @@ ("Z" :> 61) @@ ("[" :> 28) @@
    ("\\" :> 28) @@ ("]" :> 28) @@ ("^" :> 47) @@ ("_" :> 56) @@ 
    ("a" :> 56) @@ ("b" :> 56) @@ ("c" :> 50) @@ ("d" :> 56) @@ ("e" :> 56) @@
    ("f" :> 28) @@ ("g" :> 56) @@ ("h" :> 56) @@ ("i" :> 22) @@ ("j" :> 22) @@
    ("k" :> 50) @@ ("l" :> 22) @@ ("m" :> 83) @@ ("n" :> 56) @@ ("o" :> 56) @@
    ("p" :> 56) @@ ("q" :> 56) @@ ("r" :> 33) @@ ("s" :> 50) @@ ("t" :> 28) @@
    ("u" :> 56) @@ ("v" :> 50) @@ ("w" :> 72) @@ ("x" :> 50) @@ ("y" :> 50) @@
    ("z" :> 50) @@ ("{" :> 33) @@ ("|" :> 26) @@ ("}" :> 33) @@ ("~" :> 58)

-----------------------------------------------------------------------------
(* Integer helpers                                                         *)

Max(a, b) == IF a >= b THEN a ELSE b
Min(a, b) == IF a <= b THEN a ELSE b

\* math.ceil(a / b) for a >= 0, b > 0
CeilDiv(a, b) == (a + b - 1) \div b

-----------------------------------------------------------------------------
(* str methods the code uses, on sequences of characters                   *)

NL == "\n"
IsSpace(ch) == ch \in {" ", NL}

RECURSIVE LStrip(_)
LStrip(s) ==
    IF s = <<>> THEN <<>>
    ELSE IF IsSpace(Head(s)) THEN LStrip(Tail(s)) ELSE s

RECURSIVE RStrip(_)
RStrip(s) ==
    IF s = <<>> THEN <<>>
    ELSE IF IsSpace(s[Len(s)]) THEN RStrip(SubSeq(s, 1, Len(s) - 1)) ELSE s

\* str.strip()
Strip(s) == RStrip(LStrip(s))

\* str.split(sep): the pieces between the separators, always at least one
SplitOn(s, sep) ==
    LET cuts == {i \in 1..Len(s) : s[i] = sep}
        n == Cardinality(cuts)
        Cut(k) == IF k = 0 THEN 0
                  ELSE IF k = n + 1 THEN Len(s) + 1
                  ELSE CHOOSE i \in cuts : Cardinality({j \in cuts : j <= i}) = k
    IN  [k \in 1..(n + 1) |-> SubSeq(s, Cut(k - 1) + 1, Cut(k) - 1)]

\* length of the leading run of non-space characters
RECURSIVE WordLen(_)
WordLen(s) ==
    IF s = <<>> \/ IsSpace(Head(s)) THEN 0 ELSE 1 + WordLen(Tail(s))

\* str.split() with no argument: runs of whitespace separate, no empty piece
RECURSIVE SplitWords(_)
SplitWords(s) ==
    LET t == LStrip(s)
        n == WordLen(t)
    IN  IF t = <<>> THEN <<>>
        ELSE <<SubSeq(t, 1, n)>> \o SplitWords(SubSeq(t, n + 1, Len(t)))

\* sep.join(parts)
RECURSIVE Join(_, _)
Join(parts, sep) ==
    IF parts = <<>> THEN <<>>
    ELSE IF Len(parts) = 1 THEN parts[1]
    ELSE parts[1] \o sep \o Join(Tail(parts), sep)

Ellipsis == <<".", ".", ".">>

\* s[:k]
Take(s, k) == SubSeq(s, 1, Min(k, Len(s)))

-----------------------------------------------------------------------------
(* Text Measurement Engine (html2pptx.py)                                  *)

\* sum of the em fractions of the characters, in hundredths of em
RECURSIVE TotalEm(_)
TotalEm(text) ==
    IF text = <<>> THEN 0
    ELSE (IF Head(text) \in DOMAIN _ARIAL_REGULAR
          THEN _ARIAL_REGULAR[Head(text)]
          ELSE _ARIAL_REGULAR_DEFAULT) + TotalEm(Tail(text))

\* rendered width in 1/10000 pt
_estimate_text_width_pt(text, font_size_pt, bold) ==
    TotalEm(text) * font_size_pt * (IF bold THEN _ARIAL_BOLD_SCALE ELSE 100)

\* usable width of a box, in EMU: (box_width - 0.20) * 72 pt, at least 36 pt
\* variant: the least usable width is 0.6 in (43.2 pt)
UsableWidth_FloorAtSixTenths(box_width) == IF box_width - FRAME_MARGIN_W < 548640 THEN 548640 ELSE box_width - FRAME_MARGIN_W

UsableWidth(box_width) ==
    IF box_width - FRAME_MARGIN_W < MIN_USABLE_WIDTH
    THEN MIN_USABLE_WIDTH
    ELSE box_width - FRAME_MARGIN_W

\* rendered_pt <= usable_width_pt, rendered in 1/10000 pt, usable in EMU
FitsWidth(rendered, usable) == rendered * 127 <= usable * 100

\* variant: ideal character wrap, without the factor 1.05
WrapLines_Ideal(rendered, usable) == CeilDiv(rendered * 127, usable * 100)

\* math.ceil(rendered_pt / usable_width_pt * 1.05)
\*   = ceil(rendered * 127 * 105 / (usable * 10000))
\*   = ceil(ceil(rendered * 2667 / 2000) / usable)
WrapLines(rendered, usable) ==
    CeilDiv(2667 * (rendered \div 2000)
              + CeilDiv((rendered % 2000) * 2667, 2000), usable)

\* ParaLines with the blank-paragraph allowance added to a full line
ParaLines_BlankAsFullLine(para, font_size_pt, usable, bold) ==
    LET stripped == Strip(para)
        rendered_pt == _estimate_text_width_pt(stripped, font_size_pt, bold)
    IN  IF stripped = <<>> THEN 14
        ELSE IF FitsWidth(rendered_pt, usable) THEN 10
        ELSE 10 * Max(2, WrapLines(rendered_pt, usable))

\* lines of one paragraph, in tenths of a line
ParaLines(para, font_size_pt, usable, bold) ==
    LET stripped == Strip(para)
        rendered_pt == _estimate_text_width_pt(stripped, font_size_pt, bold)
    IN  IF stripped = <<>> THEN 4
        ELSE IF FitsWidth(rendered_pt, usable) THEN 10
        ELSE 10 * Max(2, WrapLines(rendered_pt, usable))

RECURSIVE SumParaLines(_, _, _, _)
SumParaLines(paragraphs, font_size_pt, usable, bold) ==
    IF paragraphs = <<>> THEN 0
    ELSE ParaLines(Head(paragraphs), font_size_pt, usable, bold)
         + SumParaLines(Tail(paragraphs), font_size_pt, usable, bold)

\* num_lines of _estimate_text_height, in tenths of a line
NumLines(text, font_size_pt, box_width, bold) ==
    SumParaLines(SplitOn(text, NL), font_size_pt, UsableWidth(box_width), bold)

\* height in EMU: num_lines * (font_size_pt / 72 * line_spacing) + 0.10 in
_estimate_text_height(text, font_size_pt, box_width, line_spacing, bold) ==
    NumLines(text, font_size_pt, box_width, bold) * font_size_pt * line_spacing * 127
      + FRAME_MARGIN_H

-----------------------------------------------------------------------------
(* Fit/Truncation Resolver (html2pptx.py)                                  *)

FitsHeight(candidate, font_size_pt, box_width, max_height, bold) ==
    _estimate_text_height(candidate, font_size_pt, box_width, LINE_SPACING, bold)
      <= max_height

\* variant: the search stops at the first candidate that fits
RECURSIVE ParagraphSearch_FirstFit(_, _, _, _, _, _, _)
ParagraphSearch_FirstFit(paragraphs, lo, hi, font_size_pt, box_width, max_height, bold) ==
    IF lo >= hi THEN lo
    ELSE LET mid == (lo + hi + 1) \div 2
             candidate == Join(Take(paragraphs, mid), <<NL>>)
                            \o <<NL>> \o Ellipsis
         IN  IF FitsHeight(candidate, font_size_pt, box_width, max_height, bold)
             THEN mid
             ELSE ParagraphSearch_FirstFit(paragraphs, lo, mid - 1, font_size_pt,
                                           box_width, max_height, bold)

\* the first binary search: how many paragraphs fit, followed by "\n..."
RECURSIVE ParagraphSearch(_, _, _, _, _, _, _)
ParagraphSearch(paragraphs, lo, hi, font_size_pt, box_width, max_height, bold) ==
    IF lo >= hi THEN lo
    ELSE LET mid == (lo + hi + 1) \div 2
             candidate == Join(Take(paragraphs, mid), <<NL>>)
                            \o <<NL>> \o Ellipsis
         IN  IF FitsHeight(candidate, font_size_pt, box_width, max_height, bold)
             THEN ParagraphSearch(paragraphs, mid, hi, font_size_pt, box_width,
                                  max_height, bold)
             ELSE ParagraphSearch(paragraphs, lo, mid - 1, font_size_pt,
                                  box_width, max_height, bold)

\* the second binary search: how many words fit, followed by "..."
RECURSIVE WordSearch(_, _, _, _, _, _, _)
WordSearch(words, lo, hi, font_size_pt, box_width, max_height, bold) ==
    IF lo >= hi THEN lo
    ELSE LET mid == (lo + hi + 1) \div 2
             candidate == Join(Take(words, mid), <<" ">>) \o Ellipsis
         IN  IF FitsHeight(candidate, font_size_pt, box_width, max_height, bold)
             THEN WordSearch(words, mid, hi, font_size_pt, box_width,
                             max_height, bold)
             ELSE WordSearch(words, lo, mid - 1, font_size_pt, box_width,
                             max_height, bold)

\* _truncate_to_fit without its early return for a text that already fits
_truncate_to_fit_NoEarlyReturn(text, font_size_pt, box_width, max_height, bold) ==
    LET paragraphs == SplitOn(text, NL)
        k == ParagraphSearch(paragraphs, 0, Len(paragraphs), font_size_pt,
                             box_width, max_height, bold)
        words == SplitWords(text)
        n == WordSearch(words, 0, Len(words), font_size_pt, box_width,
                        max_height, bold)
    IN  IF k > 0
        THEN Join(Take(paragraphs, k), <<NL>>) \o <<NL>> \o Ellipsis
        ELSE Join(Take(words, Max(n, 1)), <<" ">>) \o Ellipsis

_truncate_to_fit(text, font_size_pt, box_width, max_height, bold) ==
    IF FitsHeight(text, font_size_pt, box_width, max_height, bold)
    THEN text
    ELSE LET paragraphs == SplitOn(text, NL)
             k == ParagraphSearch(paragraphs, 0, Len(paragraphs), font_size_pt,
                                  box_width, max_height, bold)
             words == SplitWords(text)
             n == WordSearch(words, 0, Len(words), font_size_pt, box_width,
                             max_height, bold)
         IN  IF k > 0
             THEN Join(Take(paragraphs, k), <<NL>>) \o <<NL>> \o Ellipsis
             ELSE Join(Take(words, Max(n, 1)), <<" ">>) \o Ellipsis

-----------------------------------------------------------------------------
(* Verification/Audit Pass (pptx_verify.py)                                *)
(*                                                                         *)
(* A shape is a record of what python-pptx exposes: left, top, width,      *)
(* height in EMU; has_text_frame; text; the format of the first run of its *)
(* paragraphs (font_size in pt with 0 for None, bold, font_name);          *)
(* word_wrap ("true", "false" or "none"); the four text-frame margins in   *)
(* EMU with -1 for None.  All paragraphs of a shape share one run format,  *)
(* as in the text boxes add_text_box writes.                               *)

DEFAULT_MARGIN_TOP == 45720
DEFAULT_MARGIN_BOTTOM == 45720
DEFAULT_MARGIN_LEFT == 91440
DEFAULT_MARGIN_RIGHT == 91440
\* line spacing 1.2, in tenths
LINE_HEIGHT_FACTOR == 12
\* hundredths of em
_CONSOLAS_FACTOR == 60
\* font size of a paragraph whose first run sets none
DEFAULT_FONT_SIZE == 14
\* 0.05 in, the least overflow that is flagged
MIN_OVERFLOW == 45720

IsMonospace(font_name) == font_name \in {"Consolas", "Courier New", "Courier"}

\* rendered width in 1/10000 pt; the width table is a copy of the generator table
verify_estimate_text_width_pt(text, font_size_pt, is_bold, font_name) ==
    IF text = <<>> THEN 0
    ELSE IF IsMonospace(font_name)
         THEN Len(text) * _CONSOLAS_FACTOR * font_size_pt * 100
         ELSE TotalEm(text) * font_size_pt
                * (IF is_bold THEN _ARIAL_BOLD_SCALE ELSE 100)

\* (font_size_pt, is_bold, font_name) of a paragraph
_get_para_font_info(shape) ==
    [font_size_pt |-> IF shape.font_size = 0 THEN DEFAULT_FONT_SIZE
                      ELSE shape.font_size,
     is_bold |-> shape.bold,
     font_name |-> shape.font_name]

\* lines of one paragraph in tenths of a line: no width floor, no max(2, .)
ShapeParaLines(para, font, available_width) ==
    LET para_text == Strip(para)
        rendered_width == verify_estimate_text_width_pt(
                              para_text, font.font_size_pt, font.is_bold,
                              font.font_name)
    IN  IF para_text = <<>> THEN 4
        ELSE IF FitsWidth(rendered_width, available_width) THEN 10
        ELSE 10 * WrapLines(rendered_width, available_width)

RECURSIVE SumShapeParaLines(_, _, _)
SumShapeParaLines(paragraphs, font, available_width) ==
    IF paragraphs = <<>> THEN 0
    ELSE ShapeParaLines(Head(paragraphs), font, available_width)
         + SumShapeParaLines(Tail(paragraphs), font, available_width)

\* total_height of _estimate_shape_text_height, in EMU
_estimate_shape_text_height(shape, available_width) ==
    LET font == _get_para_font_info(shape)
    IN  SumShapeParaLines(SplitOn(shape.text, NL), font, available_width)
          * font.font_size_pt * LINE_HEIGHT_FACTOR * 127

Margin(value, default) == IF value = -1 THEN default ELSE value

AvailWidth(shape) ==
    shape.width - Margin(shape.margin_left, DEFAULT_MARGIN_LEFT)
                - Margin(shape.margin_right, DEFAULT_MARGIN_RIGHT)

AvailHeight(shape) ==
    shape.height - Margin(shape.margin_top, DEFAULT_MARGIN_TOP)
                 - Margin(shape.margin_bottom, DEFAULT_MARGIN_BOTTOM)

\* needed_h of verify_shape, in EMU
NeededHeight(shape) ==
    IF shape.word_wrap = "false"
    THEN Max(1, Len(SplitOn(shape.text, NL)))
           * _get_para_font_info(shape).font_size_pt * LINE_HEIGHT_FACTOR * 1270
    ELSE _estimate_shape_text_height(shape, AvailWidth(shape))

\* variant: either of the two tolerances is enough to flag
OverThreshold_Either(overflow, avail_h) ==
    overflow * 20 > avail_h * 3 \/ overflow > MIN_OVERFLOW

\* overflow > avail_h * 0.15 and overflow > 0.05
OverThreshold(overflow, avail_h) ==
    overflow * 20 > avail_h * 3 /\ overflow > MIN_OVERFLOW

\* the TextOverflow record in a sequence of one, or the empty sequence for None
verify_shape(shape, slide_num, shape_idx) ==
    IF ~shape.has_text_frame THEN <<>>
    ELSE IF Strip(shape.text) = <<>> THEN <<>>
    ELSE IF AvailWidth(shape) <= 0 \/ AvailHeight(shape) <= 0 THEN <<>>
    ELSE LET needed_h == NeededHeight(shape)
             overflow == needed_h - AvailHeight(shape)
         IN  IF OverThreshold(overflow, AvailHeight(shape))
             THEN << [slide_num |-> slide_num,
                      shape_index |-> shape_idx,
                      available_height |-> AvailHeight(shape),
                      needed_height |-> needed_h,
                      overflow_inches |-> overflow] >>
             ELSE <<>>

\* the text box add_text_box(slide, text, left, top, width, height, font_size,
\* bold=bold, wrap=wrap) adds; python-pptx reports the default margins for it
add_text_box(text, left, top, width, height, font_size, is_bold, wrap) ==
    [left |-> left, top |-> top, width |-> width, height |-> height,
     has_text_frame |-> TRUE, text |-> text,
     font_size |-> font_size, bold |-> is_bold, font_name |-> "Arial",
     word_wrap |-> IF wrap THEN "true" ELSE "false",
     margin_top |-> DEFAULT_MARGIN_TOP, margin_bottom |-> DEFAULT_MARGIN_BOTTOM,
     margin_left |-> DEFAULT_MARGIN_LEFT, margin_right |-> DEFAULT_MARGIN_RIGHT]

\* 0.10 in, 0.20 in, 0.50 in: least overlap reported, and the two severity
\* limits
OVERLAP_MIN == 91440
OVERLAP_MODERATE == 182880
OVERLAP_SEVERE == 457200

\* variant: the text is not stripped, so a text of blanks counts as text
VisibleText_Unstripped(shape) ==
    IF shape.has_text_frame THEN shape.text ELSE <<>>

\* a_shape.text_frame.text.strip() if a_shape.has_text_frame else ""
VisibleText(shape) == IF shape.has_text_frame THEN Strip(shape.text) ELSE <<>>

\* variant: the larger of the two overlap dimensions decides
OverlapMeasure_Larger(overlap_w, overlap_h) == Max(overlap_w, overlap_h)

\* min_dim
OverlapMeasure(overlap_w, overlap_h) == Min(overlap_w, overlap_h)

Severity(min_dim) ==
    IF min_dim > OVERLAP_SEVERE THEN "SEVERE"
    ELSE IF min_dim > OVERLAP_MODERATE THEN "MODERATE"
    ELSE "MINOR"

\* the body of the inner loop of detect_overlaps for the shapes numbered ai
\* and bi (from 1): the ShapeOverlap record in a sequence of one, or the
\* empty sequence (the two text previews of the record are left out)
PairOverlap(ss, ai, bi, slide_num) ==
    LET a == ss[ai]
        b == ss[bi]
        overlap_w == Min(a.left + a.width, b.left + b.width) - Max(a.left, b.left)
        overlap_h == Min(a.top + a.height, b.top + b.height) - Max(a.top, b.top)
        min_dim == OverlapMeasure(overlap_w, overlap_h)
    IN  IF VisibleText(a) = <<>> \/ VisibleText(b) = <<>> THEN <<>>
        ELSE IF overlap_w <= 0 \/ overlap_h <= 0 THEN <<>>
        ELSE IF min_dim < OVERLAP_MIN THEN <<>>
        ELSE << [slide_num |-> slide_num,
                 shape_a_index |-> ai - 1, shape_b_index |-> bi - 1,
                 overlap_width |-> overlap_w, overlap_height |-> overlap_h,
                 severity |-> Severity(min_dim)] >>

\* the two nested loops, from the pair (ai, bi) on
RECURSIVE OverlapsFrom(_, _, _, _)
OverlapsFrom(ss, ai, bi, slide_num) ==
    IF ai > Len(ss) THEN <<>>
    ELSE IF bi > Len(ss) THEN OverlapsFrom(ss, ai + 1, ai + 2, slide_num)
    ELSE PairOverlap(ss, ai, bi, slide_num)
           \o OverlapsFrom(ss, ai, bi + 1, slide_num)

detect_overlaps(ss, slide_num) == OverlapsFrom(ss, 1, 2, slide_num)

-----------------------------------------------------------------------------
(* Grid/Column Resolver and card rows (html2pptx.py, _add_cards)           *)
(*                                                                         *)
(* A container is the set of its class names, in a sequence of one, or the *)
(* empty sequence for no container.  The code tests "grid-5" in cls on the *)
(* joined class string; none of the class names used here contains         *)
(* another of the names tested, so the test is membership.                 *)

\* gap between cards 0.2 in, least card width 2.5 in, least card height 0.8 in
CARD_GAP == 182880
MIN_CARD_WIDTH == 2286000
MIN_CARD_HEIGHT == 731520
\* 0.3 in kept free under the cards
CARD_BOTTOM_MARGIN == 274320

ClassHas(cls, name) == name \in cls

\* variant: the forced column count is capped by the number of cards
ForcedCols_CappedByCount(container, num_cards) ==
    IF container = <<>> THEN 0
    ELSE LET cls == container[1]
         IN  IF ClassHas(cls, "grid-5") \/ ClassHas(cls, "fifths")
             THEN Min(num_cards, 3)
             ELSE IF ClassHas(cls, "grid-4") \/ ClassHas(cls, "fourths")
             THEN Min(num_cards, 4)
             ELSE IF ClassHas(cls, "grid-3") \/ ClassHas(cls, "thirds")
             THEN Min(num_cards, 3)
             ELSE IF ClassHas(cls, "grid-2") THEN Min(num_cards, 2)
             ELSE IF ClassHas(cls, "halves") THEN Min(num_cards, 3)
             ELSE 0

\* forced_cols, 0 for None
ForcedCols(container, num_cards) ==
    IF container = <<>> THEN 0
    ELSE LET cls == container[1]
         IN  IF ClassHas(cls, "grid-5") \/ ClassHas(cls, "fifths") THEN 3
             ELSE IF ClassHas(cls, "grid-4") \/ ClassHas(cls, "fourths") THEN 4
             ELSE IF ClassHas(cls, "grid-3") \/ ClassHas(cls, "thirds") THEN 3
             ELSE IF ClassHas(cls, "grid-2") THEN 2
             ELSE IF ClassHas(cls, "halves") THEN Min(num_cards, 3)
             ELSE 0

\* variant: a least card width of 1.5 in
TooNarrow_OneAndHalfInch(cols) ==
    CONTENT_WIDTH - CARD_GAP * (cols - 1) < 1371600 * cols

\* (CONTENT_WIDTH - gap * (cols - 1)) / cols < min_card_width
TooNarrow(cols) == CONTENT_WIDTH - CARD_GAP * (cols - 1) < MIN_CARD_WIDTH * cols

\* variant: the column count is never reduced
ShrinkCols_Never(cols) == cols

\* while cols > 1 and the cards are too narrow: cols -= 1
RECURSIVE ShrinkCols(_)
ShrinkCols(cols) ==
    IF cols > 1 /\ TooNarrow(cols) THEN ShrinkCols(cols - 1) ELSE cols

ResolveCols(container, num_cards) ==
    LET forced_cols == ForcedCols(container, num_cards)
    IN  ShrinkCols(IF forced_cols # 0 THEN forced_cols ELSE Min(num_cards, 4))

CardWidth(cols) == (CONTENT_WIDTH - CARD_GAP * (cols - 1)) \div cols

NumRows(num_cards, cols) == (num_cards + cols - 1) \div cols

\* variant: the cards are as high as their content asks for
CardHeight_Uncapped(num_rows, max_needed, top) == Max(max_needed, MIN_CARD_HEIGHT)

\* card_height; max_needed is the height the tallest card content asks for
CardHeight(num_rows, max_needed, top) ==
    LET available_height == SLIDE_HEIGHT - top - CARD_BOTTOM_MARGIN
        wanted == Max(max_needed, MIN_CARD_HEIGHT)
        per_row_avail == (available_height - CARD_GAP * (num_rows - 1)) \div num_rows
    IN  Max(IF num_rows = 1 THEN Min(wanted, available_height)
            ELSE Min(wanted, per_row_avail),
            MIN_CARD_HEIGHT)

\* add_filled_box: an auto shape, which has an empty text frame
add_filled_box(left, top, width, height) ==
    [left |-> left, top |-> top, width |-> width, height |-> height,
     has_text_frame |-> TRUE, text |-> <<>>,
     font_size |-> 0, bold |-> FALSE, font_name |-> "Arial",
     word_wrap |-> "none",
     margin_top |-> DEFAULT_MARGIN_TOP, margin_bottom |-> DEFAULT_MARGIN_BOTTOM,
     margin_left |-> DEFAULT_MARGIN_LEFT, margin_right |-> DEFAULT_MARGIN_RIGHT]

\* the card boxes of _add_cards, in card order (the title and text boxes that
\* add_card puts into each box are not part of this model)
CardBoxes(num_cards, container, top, max_needed) ==
    LET cols == ResolveCols(container, num_cards)
        num_rows == NumRows(num_cards, cols)
        card_width == CardWidth(cols)
        card_height == CardHeight(num_rows, max_needed, top)
        actual_width == num_cards * card_width + (num_cards - 1) * CARD_GAP
        start_left == IF num_cards < cols
                      THEN CONTENT_LEFT + (CONTENT_WIDTH - actual_width) \div 2
                      ELSE CONTENT_LEFT
    IN  [i \in 1..num_cards |->
            add_filled_box(
                start_left + ((i - 1) % cols) * (card_width + CARD_GAP),
                top + ((i - 1) \div cols) * (card_height + CARD_GAP),
                card_width, card_height)]

\* the height _add_cards returns
CardsHeight(num_cards, container, top, max_needed) ==
    IF num_cards = 0 THEN 0
    ELSE LET num_rows == NumRows(num_cards, ResolveCols(container, num_cards))
         IN  num_rows * CardHeight(num_rows, max_needed, top)
               + (num_rows - 1) * CARD_GAP

-----------------------------------------------------------------------------
(* Flow diagrams and tenets (html2pptx.py).  A step is a record of its     *)
(* optional parts, each a sequence of at most one text: number, title,     *)
(* desc, turns; text is get_text of the whole step.  Halves and row shares *)
(* of a length are rounded down to a whole EMU.                            *)

\* the arrow U+2192 between two steps, written with an ASCII character
FLOW_ARROW == <<">">>
\* 0.9 in and 1.05 in, the least box heights of the two layouts; 1.2 in, the
\* advance for a diagram without steps
FLOW_MIN_HEIGHT == 822960
FLOW_GRID_MIN_HEIGHT == 960120
FLOW_DEFAULT_ADVANCE == 1097280

\* the height one step asks for: need
FlowStepNeed(step, inner_w) ==
    73152
      + (IF step.title # <<>> \/ step.number # <<>> THEN 274320 ELSE 0)
      + (IF step.desc # <<>>
         THEN _estimate_text_height(step.desc[1], 11, inner_w, LINE_SPACING, FALSE)
         ELSE 0)
      + (IF step.turns # <<>>
         THEN _estimate_text_height(step.turns[1], 10, inner_w, LINE_SPACING, FALSE)
         ELSE 0)
      + 45720

\* the scan over the steps that raises the least height to the largest need
RECURSIVE FlowMaxNeed(_, _, _)
FlowMaxNeed(steps, inner_w, least) ==
    IF steps = <<>> THEN least
    ELSE FlowMaxNeed(Tail(steps), inner_w,
                     Max(least, FlowStepNeed(Head(steps), inner_w)))

\* _add_flow_step_content: the text boxes inside one step box
_add_flow_step_content(step, left, top, width, height) ==
    LET pad_x == 109728
        inner_w == width - 2 * pad_x
        y0 == top + 73152
        _ft_text == IF step.number # <<>> /\ step.title # <<>>
                    THEN step.number[1] \o <<".", " ">> \o step.title[1]
                    ELSE IF step.title # <<>> THEN step.title[1] ELSE <<>>
        _ft_h == Max(274320,
                     Min(_estimate_text_height(_ft_text, 14, inner_w,
                                               LINE_SPACING, TRUE), 548640))
        y1 == IF step.title # <<>> THEN y0 + _ft_h ELSE y0
        desc_h == IF step.desc # <<>>
                  THEN _estimate_text_height(step.desc[1], 11, inner_w,
                                             LINE_SPACING, FALSE)
                  ELSE 0
        y2 == IF desc_h > 91440 THEN y1 + desc_h ELSE y1
        turns_h == IF step.turns # <<>>
                   THEN Max(height - (y2 - top) - 45720,
                            _estimate_text_height(step.turns[1], 10, inner_w,
                                                  LINE_SPACING, FALSE))
                   ELSE 0
    IN  (IF step.title # <<>>
         THEN << add_text_box(_ft_text, left + pad_x, y0, inner_w, _ft_h, 14,
                              TRUE, TRUE) >>
         ELSE <<>>)
        \o (IF desc_h > 91440
            THEN << add_text_box(step.desc[1], left + pad_x, y1, inner_w,
                                 desc_h, 11, FALSE, TRUE) >>
            ELSE <<>>)
        \o (IF turns_h > 91440
            THEN << add_text_box(step.turns[1], left + pad_x, y2, inner_w,
                                 turns_h, 10, FALSE, TRUE) >>
            ELSE <<>>)
        \o (IF step.title = <<>> /\ step.number = <<>>
            THEN << add_text_box(step.text, left + 73152, top + 73152,
                                 width - 146304, height - 146304, 11, FALSE,
                                 TRUE) >>
            ELSE <<>>)

\* the loop of the single-row layout from step i on
RECURSIVE FlowRowShapes(_, _, _, _, _, _)
FlowRowShapes(steps, i, current_left, top, box_width, box_height) ==
    IF i > Len(steps) THEN <<>>
    ELSE << add_filled_box(current_left, top, box_width, box_height) >>
         \o _add_flow_step_content(steps[i], current_left, top, box_width,
                                   box_height)
         \o (IF i < Len(steps)
             THEN << add_text_box(FLOW_ARROW, current_left + box_width + 137160,
                                  top + box_height \div 2 - 201168,
                                  411480, 411480, 20, TRUE, TRUE) >>
             ELSE <<>>)
         \o FlowRowShapes(steps, i + 1,
                          current_left + box_width
                            + (IF i < Len(steps) THEN 411480 + 2 * 137160 ELSE 0),
                          top, box_width, box_height)

\* the loop of the multi-row layout from step i on (i counts from 1)
RECURSIVE FlowGridShapes(_, _, _, _, _)
FlowGridShapes(steps, i, top, box_width, box_height) ==
    IF i > Len(steps) THEN <<>>
    ELSE LET col == (i - 1) % 3
             row == (i - 1) \div 3
             left == CONTENT_LEFT + col * (box_width + 182880)
             rtop == top + row * (box_height + 228600)
         IN  << add_filled_box(left, rtop, box_width, box_height) >>
             \o _add_flow_step_content(steps[i], left, rtop, box_width,
                                       box_height)
             \o (IF col < 2 /\ i < Len(steps)
                 THEN << add_text_box(FLOW_ARROW,
                                      left + box_width + 91440 - 201168,
                                      rtop + box_height \div 2 - 201168,
                                      411480, 411480, 16, TRUE, TRUE) >>
                 ELSE <<>>)
             \o FlowGridShapes(steps, i + 1, top, box_width, box_height)

\* _add_flow_diagram(slide, flow_el, top): the shapes it adds and the height
\* it returns
_add_flow_diagram(steps, top) ==
    LET num_steps == Len(steps)
    IN  IF num_steps = 0 THEN [shapes |-> <<>>, height |-> 0]
        ELSE IF num_steps > 4
        THEN LET num_rows == (num_steps + 2) \div 3
                 box_width == (CONTENT_WIDTH - 182880 * 2) \div 3
                 inner_w == box_width - 2 * 109728
                 max_step_need == FlowMaxNeed(steps, inner_w, FLOW_GRID_MIN_HEIGHT)
                 avail_per_row == (SLIDE_HEIGHT - top - 274320
                                     - (num_rows - 1) * 228600) \div num_rows
                 box_height == Min(max_step_need, avail_per_row)
             IN  [shapes |-> FlowGridShapes(steps, 1, top, box_width, box_height),
                  height |-> num_rows * box_height + (num_rows - 1) * 228600]
        ELSE LET total_arrow_space == (num_steps - 1) * (411480 + 2 * 137160)
                 box_width == Min((CONTENT_WIDTH - total_arrow_space) \div num_steps,
                                  2286000)
                 sr_inner_w == box_width - 2 * 109728
                 box_height == Min(FlowMaxNeed(steps, sr_inner_w, FLOW_MIN_HEIGHT),
                                   SLIDE_HEIGHT - top - 274320)
                 total_width == num_steps * box_width + total_arrow_space
                 start_left == CONTENT_LEFT + (CONTENT_WIDTH - total_width) \div 2
             IN  [shapes |-> FlowRowShapes(steps, 1, start_left, top, box_width,
                                           box_height),
                  height |-> box_height]

\* the loop of the flow-diagram rule over the diagrams from number i on:
\* the shapes and the cursor after it
RECURSIVE FlowDiagramsLoop(_, _, _, _)
FlowDiagramsLoop(diagrams, i, ss, top) ==
    IF i > Len(diagrams) THEN [shapes |-> ss, top |-> top]
    ELSE LET fd == _add_flow_diagram(diagrams[i], top)
         IN  FlowDiagramsLoop(diagrams, i + 1, ss \o fd.shapes,
                              top + (IF fd.height # 0 THEN fd.height
                                     ELSE FLOW_DEFAULT_ADVANCE)
                                  + GAP_SECTION)

\* the default height of a tenet, 0.9 in
TENET_HEIGHT == 822960

\* add_tenet(slide, title, text, left, top, width, height): the box, the
\* accent bar, the title and the text of one tenet
add_tenet(title, body, left, top, width, height) ==
    LET text_left == left + 228600
        text_width == width - 320040
        title_h == Max(228600,
                       Min(_estimate_text_height(title, 14, text_width,
                                                 LINE_SPACING, TRUE),
                           (height * 45) \div 100))
        text_top == top + 73152 + title_h + GAP_TIGHT
        text_h == height - (73152 + title_h + GAP_TIGHT + 45720)
    IN  << add_filled_box(left, top, width, height),
           [add_filled_box(left, top, 137160, height) EXCEPT !.word_wrap = "false"],
           add_text_box(title, text_left, top + 73152, text_width, title_h, 14,
                        TRUE, TRUE) >>
        \o (IF body # <<>> /\ text_h > 91440
            THEN << add_text_box(body, text_left, text_top, text_width,
                                 Max(text_h, 137160), 11, FALSE, TRUE) >>
            ELSE <<>>)

\* _add_tenets: two columns from four tenets on, else one below the other
RECURSIVE _add_tenets(_, _, _)
_add_tenets(tenets, i, top) ==
    IF i > Len(tenets) THEN <<>>
    ELSE (IF Len(tenets) >= 4
          THEN add_tenet(tenets[i].title, tenets[i].body,
                         CONTENT_LEFT + ((i - 1) % 2) * 4114800,
                         top + ((i - 1) \div 2) * 914400, 3840480,
                         TENET_HEIGHT)
          ELSE add_tenet(tenets[i].title, tenets[i].body, CONTENT_LEFT,
                         top + (i - 1) * 914400, CONTENT_WIDTH, TENET_HEIGHT))
         \o _add_tenets(tenets, i + 1, top)

-----------------------------------------------------------------------------
(* Overflow Compression Pass (html2pptx.py, end of process_slide)          *)

\* 0.10 in kept free at the bottom of the slide
BOTTOM_MARGIN == 91440
\* 0.3 in: shapes with a top above it are backgrounds, not content
CONTENT_TOP_THRESHOLD == 274320

\* <<quotient, remainder>> of a * b by c, for a, b >= 0 and c > 0, computed
\* by halving b so that no intermediate value exceeds 2 * c + a
RECURSIVE MulDivMod(_, _, _)
MulDivMod(a, b, c) ==
    IF b = 0 THEN <<0, 0>>
    ELSE LET half == MulDivMod(a, b \div 2, c)
             q2 == 2 * half[1] + (2 * half[2]) \div c
             r2 == (2 * half[2]) % c
             r3 == r2 + (a % c)
         IN  IF b % 2 = 0 THEN <<q2, r2>>
             ELSE <<q2 + (a \div c) + (r3 \div c), r3 % c>>

\* int(a * b / c)
MulDivFloor(a, b, c) == MulDivMod(a, b, c)[1]

RECURSIVE MaxBottom(_, _)
MaxBottom(ss, floor_value) ==
    IF ss = <<>> THEN floor_value
    ELSE MaxBottom(Tail(ss), Max(floor_value, Head(ss).top + Head(ss).height))

ContentShapes(ss) == {i \in 1..Len(ss) : ss[i].top >= CONTENT_TOP_THRESHOLD}

ContentStart(ss) ==
    CHOOSE t \in {ss[i].top : i \in ContentShapes(ss)} :
        \A i \in ContentShapes(ss) : t <= ss[i].top

ContentEnd(ss) ==
    CHOOSE b \in {ss[i].top + ss[i].height : i \in ContentShapes(ss)} :
        \A i \in ContentShapes(ss) : b >= ss[i].top + ss[i].height

\* the pass has something to compress
Overflows(ss, current_top) ==
    /\ MaxBottom(ss, current_top) > SLIDE_HEIGHT
    /\ ContentShapes(ss) # {}
    /\ ContentEnd(ss) - ContentStart(ss) > 0

\* scale = (usable - content_start) / content_height, as <<numerator, denominator>>
Scale(ss) ==
    <<SLIDE_HEIGHT - BOTTOM_MARGIN - ContentStart(ss),
      ContentEnd(ss) - ContentStart(ss)>>

\* 0.40 < scale < 1.0
ScaleProportional(scale) == 5 * scale[1] > 2 * scale[2] /\ scale[1] < scale[2]

\* scale <= 0.40
ScaleAtFloor(scale) == 5 * scale[1] <= 2 * scale[2]

\* variant: the top is scaled from the top of the slide
CompressedTop_FromSlideTop(top, content_start, num, den) ==
    IF top >= content_start THEN MulDivFloor(top, num, den) ELSE top

\* variant: only a shape that starts below the usable height is moved
CompressedTop_OnlyBelowUsable(top, content_start, num, den) ==
    IF top >= SLIDE_HEIGHT - BOTTOM_MARGIN
    THEN content_start + MulDivFloor(top - content_start, num, den)
    ELSE top

\* shape.top = int((content_start + rel_top * scale) * 914400)
CompressedTop(top, content_start, num, den) ==
    IF top >= content_start
    THEN content_start + MulDivFloor(top - content_start, num, den)
    ELSE top

\* variant: the heights are scaled with the tops
Compress_WithHeights(ss, current_top) ==
    IF ~Overflows(ss, current_top) THEN ss
    ELSE LET scale == IF ScaleAtFloor(Scale(ss)) THEN <<2, 5>> ELSE Scale(ss)
         IN  IF scale[1] >= scale[2] THEN ss
             ELSE [i \in 1..Len(ss) |->
                     [ss[i] EXCEPT
                        !.top = CompressedTop(ss[i].top, ContentStart(ss),
                                              scale[1], scale[2]),
                        !.height = IF ss[i].top >= ContentStart(ss)
                                   THEN MulDivFloor(ss[i].height, scale[1], scale[2])
                                   ELSE ss[i].height]]

\* variant: no test of the bottom against the slide height and no upper
\* limit on the scale, so content that fits is spread over the usable area
Compress_Unguarded(ss, current_top) ==
    IF ContentShapes(ss) = {} THEN ss
    ELSE IF ContentEnd(ss) - ContentStart(ss) <= 0 THEN ss
    ELSE LET scale == IF ScaleAtFloor(Scale(ss)) THEN <<2, 5>> ELSE Scale(ss)
         IN  [i \in 1..Len(ss) |->
                 [ss[i] EXCEPT !.top = CompressedTop(ss[i].top, ContentStart(ss),
                                                     scale[1], scale[2])]]

\* the shapes after the pass
Compress(ss, current_top) ==
    IF ~Overflows(ss, current_top) THEN ss
    ELSE IF ScaleProportional(Scale(ss))
         THEN [i \in 1..Len(ss) |->
                 [ss[i] EXCEPT !.top = CompressedTop(ss[i].top, ContentStart(ss),
                                                     Scale(ss)[1], Scale(ss)[2])]]
    ELSE IF ScaleAtFloor(Scale(ss))
         THEN [i \in 1..Len(ss) |->
                 [ss[i] EXCEPT !.top = CompressedTop(ss[i].top, ContentStart(ss),
                                                     2, 5)]]
    ELSE ss

\* variant: a warning for every compression, proportional ones included
CompressWarnings_EveryCompression(ss, current_top, slide_num) ==
    IF Overflows(ss, current_top)
    THEN << [slide_num |-> slide_num, current_top |-> current_top,
             scale |-> Scale(ss)] >>
    ELSE <<>>

\* the warnings the pass appends: the slide, the cursor and the scale it names
CompressWarnings(ss, current_top, slide_num) ==
    IF Overflows(ss, current_top) /\ ScaleAtFloor(Scale(ss))
    THEN << [slide_num |-> slide_num, current_top |-> current_top,
             scale |-> Scale(ss)] >>
    ELSE <<>>

-----------------------------------------------------------------------------
(* State                                                                    *)

VARIABLES
    pc,               \* position of the caller in the scenario being run
    text,             \* argument text of the measurement / truncation call
    font_size_pt,     \* argument font size
    box_width,        \* argument box width
    bold,             \* argument bold flag
    max_height,       \* argument height budget of _truncate_to_fit
    truncated,        \* value returned by _truncate_to_fit
    shapes,           \* slide.shapes, in drawing order
    overflows,        \* SlideReport.overflows of the audit
    overlaps,         \* SlideReport.overlaps of the audit
    rendered,         \* history: <<rule, element>> for every element a rule drew
    slide_div,        \* the slide being laid out (its blocks)
    slide_num,        \* number of the slide being laid out, from 1
    current_top,      \* the layout cursor of process_slide
    handled_elements, \* the blocks already claimed by a rule, as <<kind, index>>
    grid,             \* cols, num_rows, card_width, card_height of _add_cards
    warnings,         \* HTMLToPPTXConverter.warnings
    placed,           \* the shapes as the rules placed them, before the
                      \* overflow compression pass rewrote slide.shapes
    element,          \* the element handed to get_rich_text
    runs,             \* the runs get_rich_text returns
    soup,             \* HTMLToPPTXConverter.soup: the slide elements of the tree
    source,           \* history: soup as it was parsed
    deck              \* the slides of HTMLToPPTXConverter.prs, each its shapes

\* the tree and the deck, which only the scenarios about them change
treeVars == <<element, runs, soup, source, deck>>

measureVars ==
    <<text, font_size_pt, box_width, bold, max_height, truncated, treeVars>>
slideVars == <<slide_div, slide_num, current_top, handled_elements, grid,
               warnings, placed, rendered, treeVars>>

vars == <<pc, measureVars, shapes, overflows, overlaps, slideVars>>

\* the values of the variables a scenario does not use
NoGrid == [cols |-> 0, num_rows |-> 0, card_width |-> 0, card_height |-> 0]
NoCards == [num_cards |-> 0, container |-> <<>>, max_needed |-> 0]
NoSlide ==
    [centered |-> FALSE, section_label |-> FALSE, headline |-> <<>>,
     cards |-> NoCards, flow_diagrams |-> <<>>, tenets |-> <<>>,
     elements |-> <<>>]

TreeIdle ==
    /\ element = <<>>
    /\ runs = <<>>
    /\ soup = <<>>
    /\ source = <<>>
    /\ deck = <<>>

SlideIdle ==
    /\ TreeIdle
    /\ slide_div = NoSlide
    /\ slide_num = 0
    /\ current_top = 0
    /\ handled_elements = {}
    /\ grid = NoGrid
    /\ warnings = <<>>
    /\ placed = <<>>
    /\ rendered = {}

MeasureIdle ==
    /\ TreeIdle
    /\ text = <<>>
    /\ font_size_pt = 0
    /\ box_width = 0
    /\ bold = FALSE
    /\ max_height = 0
    /\ truncated = <<>>

-----------------------------------------------------------------------------
(* Calls of the measurement engine and the truncation resolver             *)

MaxTextLen == 5
Alphabet == {"W", "i", " ", NL}
FontSizes == {10, 20}
\* 0.6 in (below the 0.7 in where the usable-width floor starts), 1.0 in
BoxWidths == {548640, 914400}
\* 0.20 in, 0.45 in, 0.80 in, 1.20 in
MaxHeights == {182880, 411480, 731520, 1097280}

InitMeasure ==
    /\ pc = "input"
    /\ text = <<>>
    /\ font_size_pt \in FontSizes
    /\ box_width \in BoxWidths
    /\ bold \in BOOLEAN
    /\ max_height \in MaxHeights
    /\ truncated = <<>>
    /\ shapes = <<>>
    /\ overflows = <<>>
    /\ overlaps = <<>>
    /\ SlideIdle

\* the text of the caller grows by one character
AppendChar ==
    /\ pc = "input"
    /\ Len(text) < MaxTextLen
    /\ \E ch \in Alphabet : text' = Append(text, ch)
    /\ UNCHANGED <<pc, font_size_pt, box_width, bold, max_height, truncated,
                   shapes, overflows, overlaps, slideVars>>

\* text' = _truncate_to_fit(text, font, width, max_height, bold)
CallTruncate ==
    /\ pc = "input"
    /\ truncated' = _truncate_to_fit(text, font_size_pt, box_width, max_height, bold)
    /\ pc' = "truncated"
    /\ UNCHANGED <<text, font_size_pt, box_width, bold, max_height, shapes,
                   overflows, overlaps, slideVars>>

\* the result is passed to _truncate_to_fit once more
CallTruncateAgain ==
    /\ pc = "truncated"
    /\ text' = truncated
    /\ truncated' = _truncate_to_fit(truncated, font_size_pt, box_width, max_height, bold)
    /\ pc' = "retruncated"
    /\ UNCHANGED <<font_size_pt, box_width, bold, max_height, shapes, overflows, overlaps,
                   slideVars>>

NextMeasure == AppendChar \/ CallTruncate \/ CallTruncateAgain

SpecMeasure == InitMeasure /\ [][NextMeasure]_vars

Height(t) == _estimate_text_height(t, font_size_pt, box_width, LINE_SPACING, bold)

\* C1: the text returned by _truncate_to_fit measures at most max_height
\* (same font size, width and bold flag), and it is non-empty whenever the
\* input text is non-empty.
C1_TruncationSafety ==
    pc = "truncated" =>
        /\ Height(truncated) <= max_height
        /\ (text # <<>> => truncated # <<>>)

\* C2: a text that measures at most max_height is returned unchanged; so a
\* result that fits is returned unchanged when it is truncated once more.
C2_TruncationIdentity ==
    (pc \in {"truncated", "retruncated"} /\ Height(text) <= max_height)
        => truncated = text

\* a truncated result (it ends with the marker) that fits was passed to
\* _truncate_to_fit again and came back unchanged
C2_Witness ==
    /\ pc = "retruncated"
    /\ Len(text) > 3
    /\ SubSeq(text, Len(text) - 2, Len(text)) = Ellipsis
    /\ Height(text) <= max_height
    /\ truncated = text

\* C3: for fixed font size, width, line spacing and bold flag the estimated
\* height does not decrease when one character (a space and a line break
\* included) is appended to the text.
C3_HeightMonotone ==
    (pc = "input" /\ text # <<>>)
        => Height(text) >= Height(SubSeq(text, 1, Len(text) - 1))

\* a character was appended after a line break, turning the blank last
\* paragraph (0.4 line) into a text line
C3_Witness ==
    /\ pc = "input"
    /\ Len(text) >= 3
    /\ text[Len(text) - 1] = NL
    /\ text[Len(text)] = "W"
    /\ Height(text) > Height(SubSeq(text, 1, Len(text) - 1))

\* the formula for the height, written out from the glyph table: the em
\* fractions of a paragraph in hundredths, and its lines in tenths
RECURSIVE GlyphEm(_)
GlyphEm(s) ==
    IF s = <<>> THEN 0
    ELSE (IF Head(s) \in DOMAIN _ARIAL_REGULAR THEN _ARIAL_REGULAR[Head(s)] ELSE 56)
         + GlyphEm(Tail(s))

FormulaLines(para, size, width, is_bold) ==
    LET s == Strip(para)
        r == GlyphEm(s) * size * (IF is_bold THEN 108 ELSE 100)
        usable == Max(width - 182880, 457200)
        \* r / usable * 1.05 >  n  iff  scaled > n * usable
        scaled == 2667 * (r \div 2000) + ((r % 2000) * 2667 + 1999) \div 2000
    IN  IF s = <<>> THEN 4
        ELSE IF r * 127 <= usable * 100 THEN 10
        ELSE 10 * Max(2, (scaled + usable - 1) \div usable)

RECURSIVE FormulaSum(_, _, _, _)
FormulaSum(paragraphs, size, width, is_bold) ==
    IF paragraphs = <<>> THEN 0
    ELSE FormulaLines(Head(paragraphs), size, width, is_bold)
         + FormulaSum(Tail(paragraphs), size, width, is_bold)

TwentyW == [i \in 1..20 |-> "W"]

\* C16: _estimate_text_height is (sum over the paragraphs of their lines) x
\* (font size / 72 x line spacing) + 0.10 in, a blank paragraph counting 0.4
\* line, a paragraph whose rendered width (glyph em fractions x font size,
\* x 1.08 if bold, 0.56 em for an unmapped character) is at most the usable
\* width counting 1 line, any other max(2, ceil(rendered / usable x 1.05));
\* 20 W at 20 pt in a 2.0 in box are 4 lines.
C16_HeightFormula ==
    /\ pc = "input" =>
         Height(text)
           = FormulaSum(SplitOn(text, NL), font_size_pt, box_width, bold)
               * font_size_pt * 12 * 127 + 91440
    /\ _estimate_text_height(TwentyW, 20, 1828800, 12, FALSE)
         = 4 * 304800 + 91440
    /\ _estimate_text_width_pt(<<"W", "é">>, 10, TRUE) = (94 + 56) * 10 * 108

\* a text with a paragraph that wraps (to the least two lines), a blank
\* paragraph and a paragraph that fits was measured: 3.4 lines
C16_Witness ==
    /\ pc = "input"
    /\ text = <<"W", "W", NL, NL, "i">>
    /\ font_size_pt = 20
    /\ box_width = 548640
    /\ ~bold
    /\ Height(text) = 34 * 20 * 12 * 127 + 91440

\* the first k paragraphs of the text followed by the marker
ParagraphCandidate(k) == Join(Take(SplitOn(text, NL), k), <<NL>>) \o <<NL, ".", ".", ".">>

\* the paragraph counts whose candidate fits
FittingCounts ==
    {k \in 1..Len(SplitOn(text, NL)) : Height(ParagraphCandidate(k)) <= max_height}

\* C18: when the text does not fit and some paragraph prefix with the marker
\* fits, _truncate_to_fit returns the first k paragraphs and the marker for
\* the largest k whose candidate fits: the candidate with k + 1 paragraphs
\* does not fit and every one with fewer does, as a linear search finds.
C18_MaximalParagraphs ==
    (pc = "truncated" /\ Height(text) > max_height /\ FittingCounts # {})
        => \E k \in FittingCounts :
               /\ truncated = ParagraphCandidate(k)
               /\ \A j \in 1..Len(SplitOn(text, NL)) : j \in FittingCounts <=> j <= k
               /\ k < Len(SplitOn(text, NL))
               /\ Height(ParagraphCandidate(k + 1)) > max_height

\* two of five paragraphs were kept
C18_Witness ==
    /\ pc = "truncated"
    /\ Height(text) > max_height
    /\ Len(SplitOn(text, NL)) = 5
    /\ FittingCounts = {1, 2}
    /\ truncated = ParagraphCandidate(2)

\* the words of the first paragraph of the text
FirstParagraphWords == SplitWords(SplitOn(text, NL)[1])

\* the first n words of the first paragraph followed by the ellipsis
WordCandidate(n) == Join(Take(FirstParagraphWords, n), <<" ">>) \o <<".", ".", ".">>

\* C19: when not even the first paragraph with the marker fits, the result
\* of _truncate_to_fit is a prefix of the words of the first paragraph
\* (one with a word in it) followed by the ellipsis, the longest whose
\* candidate fits, with at least one word; no word of a later paragraph is
\* in it.
C19_FirstParagraphWords ==
    (/\ pc = "truncated"
     /\ Height(text) > max_height
     /\ FittingCounts = {}
     /\ FirstParagraphWords # <<>>)
        => \E n \in 1..Len(FirstParagraphWords) :
               /\ truncated = WordCandidate(n)
               /\ \A j \in (n + 1)..Len(FirstParagraphWords) :
                      Height(WordCandidate(j)) > max_height
               /\ n > 1 => Height(WordCandidate(n)) <= max_height

-----------------------------------------------------------------------------
(* Audit of one shape: a text box the generator sized with its own         *)
(* estimate, or any shape of a finished deck                               *)

MaxAuditTextLen == 3
\* 0.15 in (no usable width left), 0.6 in, 0.7 in (the least width whose
\* usable width is not floored), 1.0 in
AuditWidths == {137160, 548640, 640080, 914400}
\* 0.08 in (no usable height left), 0.40 in, 0.55 in, 0.90 in
AuditHeights == {73152, 365760, 502920, 822960}

InitAudit ==
    /\ pc = "input"
    /\ text = <<>>
    /\ font_size_pt \in FontSizes
    /\ box_width \in AuditWidths
    /\ bold \in BOOLEAN
    /\ max_height = 0
    /\ truncated = <<>>
    /\ shapes = <<>>
    /\ overflows = <<>>
    /\ overlaps = <<>>
    /\ SlideIdle

\* the text of the shape grows by one character
AuditAppendChar ==
    /\ pc = "input"
    /\ Len(text) < MaxAuditTextLen
    /\ \E ch \in Alphabet : text' = Append(text, ch)
    /\ UNCHANGED <<pc, font_size_pt, box_width, bold, max_height, truncated,
                   shapes, overflows, overlaps, slideVars>>

\* the generator places a wrapping text box whose height is exactly
\* _estimate_text_height(text, font size, width, bold)
PlaceMeasuredTextBox ==
    /\ pc = "input"
    /\ shapes' = << add_text_box(
                      text, CONTENT_LEFT, GAP_SECTION, box_width,
                      _estimate_text_height(text, font_size_pt, box_width,
                                            LINE_SPACING, bold),
                      font_size_pt, bold, TRUE) >>
    /\ pc' = "placed"
    /\ UNCHANGED <<measureVars, overflows, overlaps, slideVars>>

\* a text shape of a finished deck, produced by anything
LoadTextShape ==
    /\ pc = "input"
    /\ \E h \in AuditHeights, wrap \in {"true", "false", "none"},
          name \in {"Arial", "Consolas"}, size \in {0, font_size_pt},
          margin \in {-1, 0} :
          shapes' = << [left |-> CONTENT_LEFT, top |-> GAP_SECTION,
                        width |-> box_width, height |-> h,
                        has_text_frame |-> TRUE, text |-> text,
                        font_size |-> size, bold |-> bold, font_name |-> name,
                        word_wrap |-> wrap,
                        margin_top |-> margin, margin_bottom |-> margin,
                        margin_left |-> margin, margin_right |-> margin] >>
    /\ pc' = "loaded"
    /\ UNCHANGED <<measureVars, overflows, overlaps, slideVars>>

\* a shape without a text frame (a picture, a connector)
LoadPlainShape ==
    /\ pc = "input"
    /\ \E h \in AuditHeights :
          shapes' = << [left |-> CONTENT_LEFT, top |-> GAP_SECTION,
                        width |-> box_width, height |-> h,
                        has_text_frame |-> FALSE, text |-> <<>>,
                        font_size |-> 0, bold |-> FALSE, font_name |-> "Arial",
                        word_wrap |-> "none",
                        margin_top |-> -1, margin_bottom |-> -1,
                        margin_left |-> -1, margin_right |-> -1] >>
    /\ pc' = "loaded"
    /\ UNCHANGED <<measureVars, overflows, overlaps, slideVars>>

\* verify_slide: verify_shape on every shape, the records collected in
\* order, then detect_overlaps
RECURSIVE VerifyShapes(_, _, _)
VerifyShapes(all, idx, num) ==
    IF idx > Len(all) THEN <<>>
    ELSE verify_shape(all[idx], num, idx - 1)
           \o VerifyShapes(all, idx + 1, num)

verify_slide ==
    /\ pc \in {"placed", "loaded"}
    /\ overflows' = VerifyShapes(shapes, 1, 1)
    /\ overlaps' = detect_overlaps(shapes, 1)
    /\ pc' = IF pc = "placed" THEN "verified_placed" ELSE "verified_loaded"
    /\ UNCHANGED <<measureVars, shapes, slideVars>>

NextAudit ==
    \/ AuditAppendChar
    \/ PlaceMeasuredTextBox
    \/ LoadTextShape
    \/ LoadPlainShape
    \/ verify_slide

SpecAudit == InitAudit /\ [][NextAudit]_vars

Verified == pc \in {"verified_placed", "verified_loaded"}

C4_WitnessFlagged ==
    /\ Verified
    /\ Len(overflows) = 1
    /\ overflows[1].overflow_inches > 0

-----------------------------------------------------------------------------
(* convert and process_slide: the rules modelled are, in the order of the  *)
(* code, the section label, the headline, the cards, the generic fallback  *)
(* and the overflow compression pass; the other rules of process_slide     *)
(* place and advance in the same way and are left out.                     *)

MaxSlideCards == 1
MaxElements == 3

\* headline min_h: size / 72 * 1.2 + 0.1
OneLineHeight(size) == size * 15240 + FRAME_MARGIN_H
\* 0.4 in, 1.0 in, 1.5 in, 3.5 in, 0.5 in, 0.3 in, 5.5 in
LABEL_HEIGHT == 365760
CENTERED_LABEL_TOP == 914400
CENTERED_HEADLINE_TOP == 1371600
HEADLINE_MAX_HEIGHT == 3200400
CENTERED_HEADLINE_GAP == 457200
FALLBACK_MIN_HEIGHT == 274320
FALLBACK_MAX_HEIGHT == 5029200
\* the cursor at the start of a slide, 0.6 in
START_TOP == 548640

\* str.upper() on the characters used here
Upper(s) == [i \in 1..Len(s) |-> IF s[i] = "i" THEN "I" ELSE s[i]]

\* n paragraphs "Wi" joined by line breaks
RECURSIVE Paragraphs(_)
Paragraphs(n) ==
    IF n <= 1 THEN <<"W", "i">> ELSE <<"W", "i", NL>> \o Paragraphs(n - 1)

LabelText == <<"W", "i">>
ShortText == <<"W", "i", " ", "W", "i", "W">>
\* 15 paragraphs and two blank ones: 3.78 in at 14 pt
MediumText == <<"W", "i", NL, NL, NL>> \o Paragraphs(14)
\* 21 paragraphs and a blank one: 5.09 in at 14 pt
TallText == <<"W", "i", NL, NL>> \o Paragraphs(20)

ElementTexts == {MediumText, TallText}
Headlines ==
    {<<>>, <<[name |-> "h1", text |-> ShortText]>>,
     <<[name |-> "h2", text |-> ShortText]>>}
SlideCardBlocks ==
    [num_cards : 0..MaxSlideCards, container : {<<{"halves"}>>},
     max_needed : {MIN_CARD_HEIGHT}]
SlideDivs ==
    [centered : BOOLEAN, section_label : BOOLEAN, headline : Headlines,
     cards : SlideCardBlocks, flow_diagrams : {<<>>}, tenets : {<<>>},
     elements : UNION {[1..n -> ElementTexts] : n \in 0..MaxElements}]

Init ==
    /\ pc = "convert"
    /\ MeasureIdle
    /\ shapes = <<>>
    /\ overflows = <<>>
    /\ overlaps = <<>>
    /\ SlideIdle

\* process_slide(slide_div, i + 1) for a slide out of divs: a blank slide is
\* added and the cursor and the claimed set start afresh
ProcessSlide(divs) ==
    /\ pc = "convert"
    /\ slide_num = 0
    /\ slide_div' \in divs
    /\ slide_num' = slide_num + 1
    /\ current_top' = START_TOP
    /\ handled_elements' = {}
    /\ rendered' = {}
    /\ shapes' = <<>>
    /\ placed' = <<>>
    /\ grid' = NoGrid
    /\ pc' = "section_label"
    /\ UNCHANGED <<measureVars, overflows, overlaps, warnings>>

\* convert calls process_slide for the first slide of the deck (the slides
\* after it are laid out the same way)
process_slide == ProcessSlide(SlideDivs)

\* section label rule
RuleSectionLabel ==
    /\ pc = "section_label"
    /\ IF slide_div.section_label
       THEN LET label_top == IF slide_div.centered THEN CENTERED_LABEL_TOP
                             ELSE current_top
            IN  /\ shapes' = Append(shapes,
                       add_text_box(Upper(LabelText), CONTENT_LEFT, label_top,
                                    CONTENT_WIDTH, LABEL_HEIGHT, 14, TRUE, FALSE))
                /\ current_top' = label_top + LABEL_HEIGHT + GAP_NORMAL
                /\ handled_elements' = handled_elements \cup {<<"section_label", 1>>}
                /\ rendered' = rendered \cup
                                 {<<"section_label", <<"section_label", 1>>>>}
       ELSE UNCHANGED <<shapes, current_top, handled_elements, rendered>>
    /\ pc' = "headline"
    /\ UNCHANGED <<measureVars, overflows, overlaps, slide_div, slide_num, grid, warnings,
                   placed>>

\* box_height of add_headline, recomputed by the rule to advance the cursor
HeadlineHeight(t, size) ==
    Max(OneLineHeight(size),
        Min(_estimate_text_height(t, size, CONTENT_WIDTH, LINE_SPACING, TRUE),
            HEADLINE_MAX_HEIGHT))

\* headline rule (h1 or h2.headline)
RuleHeadline ==
    /\ pc = "headline"
    /\ IF slide_div.headline # <<>>
       THEN LET headline == slide_div.headline[1]
                size == IF headline.name = "h1" THEN 56 ELSE 40
                headline_top == IF slide_div.centered
                                THEN Max(current_top, CENTERED_HEADLINE_TOP)
                                ELSE current_top
                gap_after == IF slide_div.centered THEN CENTERED_HEADLINE_GAP
                             ELSE GAP_SECTION
            IN  /\ shapes' = Append(shapes,
                       add_text_box(headline.text, CONTENT_LEFT, headline_top,
                                    CONTENT_WIDTH,
                                    HeadlineHeight(headline.text, size),
                                    size, TRUE, TRUE))
                /\ current_top' = headline_top
                                    + HeadlineHeight(headline.text, size) + gap_after
                /\ handled_elements' = handled_elements \cup {<<"headline", 1>>}
                /\ rendered' = rendered \cup {<<"headline", <<"headline", 1>>>>}
       ELSE UNCHANGED <<shapes, current_top, handled_elements, rendered>>
    /\ pc' = "cards"
    /\ UNCHANGED <<measureVars, overflows, overlaps, slide_div, slide_num, grid, warnings,
                   placed>>

\* cards rule: cards_height = self._add_cards(slide, cards, current_top, container)
RuleCards ==
    /\ pc = "cards"
    /\ LET c == slide_div.cards
       IN  IF c.num_cards > 0
           THEN /\ shapes' = shapes \o CardBoxes(c.num_cards, c.container,
                                                 current_top, c.max_needed)
                /\ grid' =
                     LET cols == ResolveCols(c.container, c.num_cards)
                     IN  [cols |-> cols,
                          num_rows |-> NumRows(c.num_cards, cols),
                          card_width |-> CardWidth(cols),
                          card_height |-> CardHeight(NumRows(c.num_cards, cols),
                                                     c.max_needed, current_top)]
                /\ current_top' = current_top
                                    + CardsHeight(c.num_cards, c.container,
                                                  current_top, c.max_needed)
                                    + GAP_SECTION
                /\ handled_elements' = handled_elements \cup {<<"card", i>> : i \in 1..c.num_cards}
                /\ rendered' = rendered \cup
                                 {<<"cards", <<"card", i>>>> : i \in 1..c.num_cards}
           ELSE UNCHANGED <<shapes, grid, current_top, handled_elements, rendered>>
    /\ pc' = "flow_diagrams"
    /\ UNCHANGED <<measureVars, overflows, overlaps, slide_div, slide_num, warnings, placed>>

\* flow diagram rule: every diagram not yet claimed is drawn at the cursor,
\* which moves on by (fd_height or 1.2) + GAP_SECTION
RuleFlowDiagrams ==
    /\ pc = "flow_diagrams"
    /\ LET done == FlowDiagramsLoop(slide_div.flow_diagrams, 1, shapes, current_top)
           ids == {<<"flow_diagram", i>> : i \in 1..Len(slide_div.flow_diagrams)}
       IN  /\ shapes' = done.shapes
           /\ current_top' = done.top
           /\ handled_elements' = handled_elements \cup ids
           /\ rendered' = rendered \cup {<<"flow_diagrams", id>> : id \in ids}
    /\ pc' = "tenets"
    /\ UNCHANGED <<measureVars, overflows, overlaps, slide_div, slide_num, grid, warnings,
                   placed>>

\* tenet rule: the tenets are drawn and the cursor moves on; the rule adds
\* nothing to handled_elements
RuleTenets ==
    /\ pc = "tenets"
    /\ IF slide_div.tenets # <<>>
       THEN /\ shapes' = shapes \o _add_tenets(slide_div.tenets, 1, current_top)
            /\ current_top' = current_top + Len(slide_div.tenets) * 457200 + 457200
            /\ rendered' = rendered \cup
                             {<<"tenets", <<"tenet", i>>>> :
                                 i \in 1..Len(slide_div.tenets)}
       ELSE UNCHANGED <<shapes, current_top, rendered>>
    /\ pc' = "fallback"
    /\ UNCHANGED <<measureVars, overflows, overlaps, slide_div, slide_num,
                   handled_elements, grid, warnings, placed>>

\* variant: the text is put into the box as it is
FallbackBox_Untruncated(t, top) ==
    add_text_box(t, CONTENT_LEFT, top, CONTENT_WIDTH,
                 Max(FALLBACK_MIN_HEIGHT,
                     _estimate_text_height(t, 14, CONTENT_WIDTH, LINE_SPACING,
                                           FALSE)),
                 14, FALSE, TRUE)

\* the text box of the fallback rule for one element
FallbackBox(t, top) ==
    LET shown == _truncate_to_fit(t, 14, CONTENT_WIDTH, FALLBACK_MAX_HEIGHT, FALSE)
        fb_height == Max(FALLBACK_MIN_HEIGHT,
                         _estimate_text_height(shown, 14, CONTENT_WIDTH,
                                               LINE_SPACING, FALSE))
    IN  add_text_box(shown, CONTENT_LEFT, top, CONTENT_WIDTH, fb_height, 14,
                     FALSE, TRUE)

\* the loop of the fallback rule over the remaining elements: <<shapes, cursor>>
RECURSIVE FallbackLoop(_, _, _)
FallbackLoop(elements, ss, top) ==
    IF elements = <<>> THEN <<ss, top>>
    ELSE IF Strip(Head(elements)) # <<>> /\ Len(Head(elements)) > 5
         THEN LET box == FallbackBox(Head(elements), top)
              IN  FallbackLoop(Tail(elements), Append(ss, box),
                               top + box.height + GAP_NORMAL)
         ELSE FallbackLoop(Tail(elements), ss, top)

\* get_text of a tenet: its title and its text, a blank between them
TenetText(tenet) ==
    IF tenet.title = <<>> THEN tenet.body
    ELSE IF tenet.body = <<>> THEN tenet.title
    ELSE tenet.title \o <<" ">> \o tenet.body

\* the children of the slide that no rule before the fallback looks at as
\* children, in document order: the tenets, then the other elements; id is
\* what handled_elements holds for the child, text is get_text of it
SlideChildren(div) ==
    [i \in 1..(Len(div.tenets) + Len(div.elements)) |->
        IF i <= Len(div.tenets)
        THEN [id |-> <<"tenet", i>>, text |-> TenetText(div.tenets[i])]
        ELSE [id |-> <<"element", i - Len(div.tenets)>>,
              text |-> div.elements[i - Len(div.tenets)]]]

\* the children the fallback loop does not skip as handled
Unhandled(children, handled) ==
    SelectSeq(children, LAMBDA c : c.id \notin handled)

\* generic fallback rule
RuleFallback ==
    /\ pc = "fallback"
    /\ LET todo == Unhandled(SlideChildren(slide_div), handled_elements)
           texts == [i \in 1..Len(todo) |-> todo[i].text]
           drawn == {todo[i].id : i \in {j \in 1..Len(todo) :
                                           /\ Strip(todo[j].text) # <<>>
                                           /\ Len(todo[j].text) > 5}}
           done == FallbackLoop(texts, shapes, current_top)
       IN  /\ shapes' = done[1]
           /\ current_top' = done[2]
           /\ handled_elements' = handled_elements \cup drawn
           /\ rendered' = rendered \cup {<<"fallback", id>> : id \in drawn}
    /\ pc' = "compress"
    /\ UNCHANGED <<measureVars, overflows, overlaps, slide_div, slide_num, grid, warnings,
                   placed>>

\* overflow compression pass, the last step of process_slide
OverflowCompression ==
    /\ pc = "compress"
    /\ placed' = shapes
    /\ shapes' = Compress(shapes, current_top)
    /\ warnings' = warnings \o CompressWarnings(shapes, current_top, slide_num)
    /\ pc' = "convert"
    /\ UNCHANGED <<measureVars, overflows, overlaps, slide_div, slide_num, current_top,
                   handled_elements, grid, rendered>>

\* convert has processed every slide of the deck and returns
ConvertDone ==
    /\ pc = "convert"
    /\ pc' = "converted"
    /\ UNCHANGED <<measureVars, shapes, overflows, overlaps, slideVars>>

Next ==
    \/ process_slide
    \/ RuleSectionLabel
    \/ RuleHeadline
    \/ RuleCards
    \/ RuleFlowDiagrams
    \/ RuleTenets
    \/ RuleFallback
    \/ OverflowCompression
    \/ ConvertDone

Spec == Init /\ [][Next]_vars

\* the pass has run on the slide
Compressed == pc \in {"convert", "converted"} /\ slide_num > 0

\* content_start as the pass computes it from the shapes it found, and the
\* tops and bottoms it computes it from
PlacedContent == {i \in 1..Len(placed) : placed[i].top >= 274320}
PlacedStart ==
    CHOOSE t \in {placed[i].top : i \in PlacedContent} :
        \A i \in PlacedContent : t <= placed[i].top
PlacedEnd ==
    CHOOSE b \in {placed[i].top + placed[i].height : i \in PlacedContent} :
        \A i \in PlacedContent : b >= placed[i].top + placed[i].height

C8_WitnessFloor ==
    /\ Compressed
    /\ Len(warnings) = 1
    /\ \E i \in 1..Len(placed) : shapes[i].top # placed[i].top

C10_FloorDiagnostic ==
    Compressed =>
        LET triggered ==
                \/ current_top > 5143500
                \/ \E i \in 1..Len(placed) :
                       placed[i].top + placed[i].height > 5143500
            computed ==
                triggered /\ PlacedContent # {} /\ PlacedEnd - PlacedStart > 0
            num == 5143500 - 91440 - PlacedStart
            den == PlacedEnd - PlacedStart
            at_floor == computed /\ 5 * num <= 2 * den
        IN  /\ Len(warnings) <= slide_num
            /\ Len(shapes) = Len(placed)
            /\ Len(warnings) = 1 <=> at_floor
            /\ at_floor =>
                 /\ warnings[1].slide_num = slide_num
                 /\ warnings[1].scale = <<num, den>>
                 /\ \A i \in 1..Len(placed) :
                        shapes[i].top =
                            PlacedStart + (2 * (placed[i].top - PlacedStart)) \div 5

\* a slide was compressed at the floor and its diagnostic recorded
C10_Witness ==
    /\ pc = "converted"
    /\ Len(warnings) = 1
    /\ warnings[1].slide_num = 1
    /\ 5 * warnings[1].scale[1] < 2 * warnings[1].scale[2]

\* a slide was compressed proportionally and no diagnostic recorded
C10_WitnessProportional ==
    /\ pc = "converted"
    /\ warnings = <<>>
    /\ \E i \in 1..Len(placed) : shapes[i].top < placed[i].top

-----------------------------------------------------------------------------
(* Calls of _add_cards: a block of cards laid out at some cursor            *)

MaxCards == 6

Containers ==
    {<<>>}
      \cup {<<{c}>> : c \in {"grid", "grid-2", "grid-3", "grid-4", "grid-5",
                              "halves", "thirds", "fourths", "fifths"}}
      \cup {<<{"grid", "grid-4"}>>, <<{"halves", "grid-5"}>>}
\* 0.6 in, 2.0 in, 4.5 in
CardTops == {548640, 1828800, 4114800}
\* 0.8 in, 1.8 in
CardNeeds == {731520, 1645920}

InitCards ==
    /\ pc = "cards"
    /\ MeasureIdle
    /\ shapes = <<>>
    /\ overflows = <<>>
    /\ overlaps = <<>>
    /\ slide_div \in
         [centered : {FALSE}, section_label : {FALSE}, headline : {<<>>},
          cards : [num_cards : 1..MaxCards, container : Containers,
                   max_needed : CardNeeds],
          flow_diagrams : {<<>>}, tenets : {<<>>}, elements : {<<>>}]
    /\ slide_num = 1
    /\ current_top \in CardTops
    /\ handled_elements = {}
    /\ grid = NoGrid
    /\ warnings = <<>>
    /\ placed = <<>>
    /\ rendered = {}

NextCards == RuleCards

SpecCards == InitCards /\ [][NextCards]_vars

\* C6: for every card count >= 1 and every container class, _add_cards
\* never lays cards out narrower than 2.5 in unless in a single column.
C6_ColumnFloor ==
    grid # NoGrid =>
        /\ grid.cols >= 1
        /\ grid.cols = 1 \/ grid.card_width >= 2286000
        /\ \A i \in 1..Len(shapes) :
               grid.cols = 1 \/ shapes[i].width >= 2286000

\* four or more cards in a grid-4 container: the four forced columns are too
\* narrow and the resolver settles on three
C6_Witness ==
    /\ grid # NoGrid
    /\ slide_div.cards.num_cards >= 4
    /\ slide_div.cards.container = <<{"grid-4"}>>
    /\ grid.cols = 3
    /\ grid.num_rows = 2

\* the column hint of a container with one class: 0 for none
ColumnHint(container) ==
    IF container = <<>> THEN 0
    ELSE IF container[1] = {"grid-2"} THEN 2
    ELSE IF container[1] \in {{"grid-3"}, {"thirds"}} THEN 3
    ELSE IF container[1] \in {{"grid-4"}, {"fourths"}} THEN 4
    ELSE IF container[1] = {"grid-5"} THEN 5
    ELSE 0

\* the containers C17 speaks of: one of the hints, or no layout class at all
HintedOrPlain(container) ==
    ColumnHint(container) # 0 \/ container \in {<<>>, <<{"grid"}>>}

\* start, decremented while (8.4 - 0.2 (cols - 1)) / cols < 2.5, down to 1
DecrementedFrom(start) ==
    CHOOSE c \in 1..start :
        /\ c = 1 \/ 7680960 - 182880 * (c - 1) >= 2286000 * c
        /\ \A d \in (c + 1)..start : 7680960 - 182880 * (d - 1) < 2286000 * d

\* C17: with a column hint h in 2..5 _add_cards uses h decremented while
\* (8.4 - 0.2 (cols - 1)) / cols < 2.5, down to 1; with no hint it starts
\* from min(n, 4).  There are ceil(n / cols) rows.  Five cards with a hint
\* of five get 3 columns, cards (8.4 - 0.4) / 3 wide, 2 rows.
C17_ColumnsAndRows ==
    (grid # NoGrid /\ HintedOrPlain(slide_div.cards.container)) =>
        LET n == slide_div.cards.num_cards
            h == ColumnHint(slide_div.cards.container)
            cols == DecrementedFrom(IF h # 0 THEN h ELSE Min(n, 4))
        IN  /\ grid.cols = cols
            /\ grid.num_rows * cols >= n
            /\ (grid.num_rows - 1) * cols < n
            /\ grid.card_width * cols = 7680960 - 182880 * (cols - 1)
            /\ (n = 5 /\ h = 5) =>
                  /\ grid.cols = 3
                  /\ grid.num_rows = 2
                  /\ grid.card_width = 2438400
            /\ Len(shapes) = n
            /\ \A i \in 1..Len(shapes) : shapes[i].width = grid.card_width

\* five cards in a grid-5 container were laid out, three and two
C17_Witness ==
    /\ grid # NoGrid
    /\ slide_div.cards.num_cards = 5
    /\ slide_div.cards.container = <<{"grid-5"}>>
    /\ grid.cols = 3
    /\ grid.num_rows = 2
    /\ Len(shapes) = 5
    /\ shapes[4].top > shapes[3].top
    /\ shapes[4].left = shapes[1].left

-----------------------------------------------------------------------------
(* The overlap scan of the audit: a slide of up to MaxBoxes shapes taken    *)
(* from a set of boxes that meet at every limit of detect_overlaps.         *)

MaxBoxes == 3

\* left, top, width, height in EMU.  Against the first box the others
\* intersect by 2.0 x 0.3 in, 3.0 x 0.1 in, 3.0 x 0.05 in, 3.0 x 0 in,
\* 3.0 x 0.5 in, and twice not at all; the seventh is 0.2 in wide and meets
\* a copy of itself by 0.2 x 0.5 in, the last meets the sixth by 3.0 x 0.55 in.
BoxFrames ==
    { <<914400, 914400, 2743200, 457200>>,
      <<1828800, 1097280, 2743200, 457200>>,
      <<914400, 1280160, 2743200, 457200>>,
      <<914400, 1325880, 2743200, 457200>>,
      <<914400, 1371600, 2743200, 457200>>,
      <<914400, 914400, 2743200, 1097280>>,
      <<0, 914400, 182880, 457200>>,
      <<914400, 1508760, 2743200, 502920>> }

\* a shape with text, with a text of one blank, or without a text frame
BoxKinds == {"text", "blank", "plain"}

BoxShape(frame, kind) ==
    [left |-> frame[1], top |-> frame[2],
     width |-> frame[3], height |-> frame[4],
     has_text_frame |-> kind # "plain",
     text |-> IF kind = "text" THEN <<"W">>
              ELSE IF kind = "blank" THEN <<" ">> ELSE <<>>,
     font_size |-> 0, bold |-> FALSE, font_name |-> "Arial",
     word_wrap |-> "none",
     margin_top |-> -1, margin_bottom |-> -1,
     margin_left |-> -1, margin_right |-> -1]

InitOverlap ==
    /\ pc = "boxes"
    /\ MeasureIdle
    /\ shapes = <<>>
    /\ overflows = <<>>
    /\ overlaps = <<>>
    /\ SlideIdle

\* one more shape on the slide of the finished deck
LoadBox ==
    /\ pc = "boxes"
    /\ Len(shapes) < MaxBoxes
    /\ \E frame \in BoxFrames, kind \in BoxKinds :
          shapes' = Append(shapes, BoxShape(frame, kind))
    /\ UNCHANGED <<pc, measureVars, overflows, overlaps, slideVars>>

\* the deck is saved and handed to the audit
SaveDeck ==
    /\ pc = "boxes"
    /\ pc' = "loaded"
    /\ UNCHANGED <<measureVars, shapes, overflows, overlaps, slideVars>>

NextOverlap ==
    \/ LoadBox
    \/ SaveDeck
    \/ verify_slide

SpecOverlap == InitOverlap /\ [][NextOverlap]_vars

NonBlank(shape) ==
    shape.has_text_frame
    /\ \E i \in 1..Len(shape.text) : ~IsSpace(shape.text[i])

IntersectionWidth(a, b) ==
    Min(a.left + a.width, b.left + b.width) - Max(a.left, b.left)

IntersectionHeight(a, b) ==
    Min(a.top + a.height, b.top + b.height) - Max(a.top, b.top)

\* the records of overlaps for the shapes numbered a and b (from 1)
ReportsOf(a, b) ==
    {k \in 1..Len(overlaps) : /\ overlaps[k].shape_a_index = a - 1
                              /\ overlaps[k].shape_b_index = b - 1}

C15_WitnessLimits ==
    /\ pc = "verified_loaded"
    /\ \E i, j \in 1..Len(overlaps) :
          /\ overlaps[i].severity = "SEVERE"
          /\ overlaps[i].overlap_height = 502920
          /\ overlaps[j].severity = "MODERATE"
          /\ overlaps[j].overlap_height = 457200

\* the lower limit: an overlap of exactly 0.2 in is MINOR
C15_WitnessMinor ==
    /\ pc = "verified_loaded"
    /\ \E k \in 1..Len(overlaps) :
          /\ overlaps[k].severity = "MINOR"
          /\ overlaps[k].overlap_width = 182880

-----------------------------------------------------------------------------
(* process_slide on slides with flow diagrams, tenets and short, trivial    *)
(* and long unclaimed elements.                                             *)

\* a headline of four lines at 56 pt, capped to 3.5 in
TallHeadline == <<"W", NL, "W", NL, "W", NL, "W">>
\* 2 and 5 characters, trivial fragments for the fallback rule
FragmentText == <<"W", "i">>
FiveCharText == <<"W", "i", " ", "W", "i">>
\* 24 paragraphs, 5.7 in at 14 pt: more than the fallback rule allows
LongText == Paragraphs(24)

\* the unclaimed elements of a slide
BlockElementLists ==
    {<<>>, <<FragmentText>>, <<FiveCharText>>, <<ShortText>>, <<LongText>>,
     <<FragmentText, LongText>>}

\* a step without structured children, one with a title and a description,
\* one with all four parts
PlainStep ==
    [number |-> <<>>, title |-> <<>>, desc |-> <<>>, turns |-> <<>>,
     text |-> ShortText]
TitledStep ==
    [number |-> <<>>, title |-> <<LabelText>>, desc |-> <<ShortText>>,
     turns |-> <<>>, text |-> LabelText \o <<" ">> \o ShortText]
FullStep ==
    [number |-> << <<"1">> >>, title |-> <<LabelText>>, desc |-> <<ShortText>>,
     turns |-> <<LabelText>>,
     text |-> <<"1", " ">> \o LabelText \o <<" ">> \o ShortText \o <<" ">>
                \o LabelText]

\* diagrams of no, one, two and five steps, and two diagrams on one slide
FlowDiagramLists ==
    { <<>>,
      << <<>> >>,
      << <<PlainStep>> >>,
      << <<TitledStep, FullStep>> >>,
      << <<FullStep, PlainStep, PlainStep, TitledStep, PlainStep>> >>,
      << <<PlainStep>>, <<TitledStep, FullStep>> >> }

Tenet == [title |-> LabelText, body |-> ShortText]
BareTenet == [title |-> LabelText, body |-> <<>>]
TenetLists ==
    {<<>>, <<Tenet>>, <<BareTenet>>, <<Tenet, BareTenet>>,
     <<Tenet, Tenet, Tenet, Tenet>>}

BlockSlideDivs ==
    [centered : BOOLEAN, section_label : BOOLEAN,
     headline : {<<>>, <<[name |-> "h1", text |-> TallHeadline]>>},
     cards : SlideCardBlocks, flow_diagrams : FlowDiagramLists,
     tenets : TenetLists,
     elements : BlockElementLists]

process_block_slide == ProcessSlide(BlockSlideDivs)

NextBlocks ==
    \/ process_block_slide
    \/ RuleSectionLabel
    \/ RuleHeadline
    \/ RuleCards
    \/ RuleFlowDiagrams
    \/ RuleTenets
    \/ RuleFallback
    \/ OverflowCompression
    \/ ConvertDone

SpecBlocks == Init /\ [][NextBlocks]_vars

\* a block rule is about to run
InRule ==
    pc \in {"section_label", "headline", "cards", "flow_diagrams", "tenets",
            "fallback"}

\* C11: from one block rule to the next the cursor current_top never
\* decreases, but for the reset of a centered slide by the section-label
\* rule.
C11_CursorNeverDecreases ==
    [][(InRule /\ ~(pc = "section_label" /\ slide_div.centered))
          => current_top' >= current_top]_vars

\* C12: every element of a slide is drawn by at most one rule.
C12_RenderedOnce ==
    \A r1, r2 \in rendered : r1[2] = r2[2] => r1[1] = r2[1]

\* process_slide has returned for the first slide
SlideFinished == pc = "convert" /\ slide_num = 1

\* the children of the finished slide that no specific rule has claimed
UnclaimedChildren ==
    SelectSeq(SlideChildren(slide_div),
              LAMBDA c : c.id \notin handled_elements
                         \/ <<"fallback", c.id>> \in rendered)

\* the text box the fallback rule makes of the text t, wherever it puts it
FallbackBoxOf(t) ==
    LET shown == _truncate_to_fit(t, 14, CONTENT_WIDTH, FALLBACK_MAX_HEIGHT,
                                  FALSE)
    IN  [text |-> shown, left |-> CONTENT_LEFT, width |-> CONTENT_WIDTH,
         font_size |-> 14,
         height |-> Max(FALLBACK_MIN_HEIGHT,
                        _estimate_text_height(shown, 14, CONTENT_WIDTH,
                                              LINE_SPACING, FALSE))]

\* the shape has the text, left edge, width, font size and height of box
IsBox(shape, box) ==
    /\ shape.text = box.text
    /\ shape.left = box.left
    /\ shape.width = box.width
    /\ shape.font_size = box.font_size
    /\ shape.height = box.height

C13_WitnessFragment ==
    /\ SlideFinished
    /\ slide_div.elements = <<FragmentText>>
    /\ rendered = {}
    /\ placed = <<>>

\* C20: every shape a block rule places has a width and a height of at
\* least 0.
C20_NoNegativeShape ==
    \A i \in 1..Len(shapes) : shapes[i].width >= 0 /\ shapes[i].height >= 0

-----------------------------------------------------------------------------
(* Further properties of _add_cards, under SpecCards                        *)

\* the top the cards rule was called with: the top of the first card
CardsTop == shapes[1].top

\* C30: _add_cards never uses more than 3 columns, whatever the card count
\* and the container class; the right edge of every card is at most 9.2 in
\* and two cards of one row do not overlap horizontally.
C30_AtMostThreeColumns ==
    grid # NoGrid =>
        /\ grid.cols <= 3
        /\ \A i \in 1..Len(shapes) :
              /\ shapes[i].left >= CONTENT_LEFT
              /\ shapes[i].left + shapes[i].width <= 8412480
        /\ \A i, j \in 1..Len(shapes) :
              (i < j /\ shapes[i].top = shapes[j].top)
                  => shapes[i].left + shapes[i].width <= shapes[j].left

\* four cards in a fourths container: three columns, the third card ends at
\* 9.2 in and the fourth starts a second row
C30_Witness ==
    /\ grid # NoGrid
    /\ slide_div.cards.container = <<{"fourths"}>>
    /\ slide_div.cards.num_cards = 4
    /\ grid.cols = 3
    /\ shapes[3].left + shapes[3].width = 8412480
    /\ shapes[2].left + shapes[2].width < shapes[3].left
    /\ shapes[4].top > shapes[3].top

\* four cards without a container: min(count, 4) columns become three
C30_WitnessDefault ==
    /\ grid # NoGrid
    /\ slide_div.cards.container = <<>>
    /\ slide_div.cards.num_cards = 4
    /\ grid.cols = 3

\* (available_vertical_space - row gaps) / rows for the cards just placed
RowCap ==
    (SLIDE_HEIGHT - CardsTop - CARD_BOTTOM_MARGIN
       - CARD_GAP * (grid.num_rows - 1)) \div grid.num_rows

\* C22 as stated: the card height is at most (available_vertical_space - row
\* gaps) / rows, and the consumed height is rows * card_height + (rows - 1)
\* * 0.2.
C22_HeightWithinCap ==
    grid # NoGrid =>
        /\ grid.card_height <= RowCap
        /\ current_top - GAP_SECTION - CardsTop
             = grid.num_rows * grid.card_height + (grid.num_rows - 1) * 182880

\* C22: the card height is max(0.8 in, min(needed height, cap)) with cap =
\* (available_vertical_space - row gaps) / rows: at most the cap when the cap
\* is 0.8 in or more, and 0.8 in when the cap is less; every card has it, and
\* the consumed height is rows * card_height + (rows - 1) * 0.2.
C22_HeightCappedAboveFloor ==
    grid # NoGrid =>
        /\ grid.card_height
             = Max(731520, Min(Max(slide_div.cards.max_needed, 731520), RowCap))
        /\ RowCap >= 731520 => grid.card_height <= RowCap
        /\ RowCap < 731520 => grid.card_height = 731520
        /\ \A i \in 1..Len(shapes) : shapes[i].height = grid.card_height
        /\ current_top - GAP_SECTION - CardsTop
             = grid.num_rows * grid.card_height + (grid.num_rows - 1) * 182880

\* cards that ask for 1.8 in on two rows from 2.0 in: capped to 1.5625 in
C22_Witness ==
    /\ grid # NoGrid
    /\ grid.num_rows = 2
    /\ CardsTop = 1828800
    /\ slide_div.cards.max_needed = 1645920
    /\ RowCap = 1428750
    /\ grid.card_height = RowCap

\* two rows from 4.5 in: the cap is 0.3125 in and the cards are 0.8 in high
C22_WitnessFloor ==
    /\ grid # NoGrid
    /\ grid.num_rows = 2
    /\ CardsTop = 4114800
    /\ RowCap = 285750
    /\ grid.card_height = 731520

-----------------------------------------------------------------------------
(* Further properties of the overflow compression pass, under Spec          *)

\* a picture over the whole slide at its top and two boxes of 3.0 in at
\* 0.6 in and at `second_top`
BackgroundAndTwo(second_top) ==
    << add_filled_box(0, 0, 9144000, SLIDE_HEIGHT),
       add_filled_box(CONTENT_LEFT, START_TOP, CONTENT_WIDTH, 2743200),
       add_filled_box(CONTENT_LEFT, second_top, CONTENT_WIDTH, 2743200) >>

\* the tops of after are in the order of the tops of before
SameOrder(before, after) ==
    /\ Len(after) = Len(before)
    /\ \A i, j \in 1..Len(before) :
          before[i].top <= before[j].top => after[i].top <= after[j].top

\* C27: the pass keeps the vertical order of the shapes: top(a) <= top(b)
\* before it implies top(a) <= top(b) after it, in the proportional and in
\* the 0.40-floor branch, a shape above content_start that is not moved
\* included.
C27_OrderPreserved ==
    /\ Compressed => SameOrder(placed, shapes)
    /\ \A second_top \in {3657600, 10972800} :
          LET before == BackgroundAndTwo(second_top)
              after == Compress(before, second_top + 2743200)
          IN  /\ SameOrder(before, after)
              /\ after[1].top = 0
              /\ after[2].top = START_TOP
              /\ after[3].top < second_top

\* the proportional branch moved the lower of two shapes and left it below
\* the upper one
C27_Witness ==
    /\ Compressed
    /\ warnings = <<>>
    /\ \E i, j \in 1..Len(placed) :
          /\ placed[i].top < placed[j].top
          /\ shapes[j].top < placed[j].top
          /\ shapes[i].top < shapes[j].top

\* the same in the 0.40-floor branch, with three shapes
C27_WitnessFloor ==
    /\ Compressed
    /\ Len(warnings) = 1
    /\ \E i, j, k \in 1..Len(placed) :
          /\ placed[i].top < placed[j].top /\ placed[j].top < placed[k].top
          /\ shapes[k].top < placed[k].top
          /\ shapes[i].top < shapes[j].top /\ shapes[j].top < shapes[k].top

\* the pass ran in its proportional branch
RanProportional ==
    /\ Compressed
    /\ Overflows(placed, current_top)
    /\ ScaleProportional(Scale(placed))

-----------------------------------------------------------------------------
(* The verifier's estimate against the generator's, widths from 0.7 in     *)

\* 0.7 in, the least box width whose usable width reaches 36 pt
UNFLOORED_WIDTH == 640080

MeasuredBoxPlaced ==
    /\ pc \in {"placed", "verified_placed"}
    /\ box_width >= UNFLOORED_WIDTH

C26_WitnessParagraphs ==
    /\ pc = "placed"
    /\ box_width = 914400
    /\ Len(SplitOn(text, NL)) = 2
    /\ NumLines(text, font_size_pt, box_width, bold) = 14

-----------------------------------------------------------------------------
(* The cursor against the shapes a block rule has drawn                    *)

\* the shapes the running step appends to the slide
PlacedByStep == {shapes'[i] : i \in (Len(shapes) + 1)..Len(shapes')}

\* after the step the cursor is at or below every shape the step has placed
CursorCoversPlaced ==
    \A shape \in PlacedByStep : current_top' >= shape.top + shape.height

\* C21: when a block rule (cards, flow diagrams, tenets) has run, the cursor
\* current_top is at or below the bottom edge of every shape the rule placed.
C21_CursorCoversPlaced ==
    [][(pc \in {"cards", "flow_diagrams", "tenets"}) => CursorCoversPlaced]_vars

-----------------------------------------------------------------------------
(* Notification stacks: _add_notification_stack                            *)

\* row_height = 0.55 in, row_gap = 0.08 in, total_width = 6.0 in
NotifRowHeight == 502920
NotifRowGap == 73152
NotifTotalWidth == 5486400
\* start_left = CONTENT_LEFT + (CONTENT_WIDTH - total_width) / 2
NotifStartLeft == CONTENT_LEFT + (CONTENT_WIDTH - NotifTotalWidth) \div 2
\* notif_w = total_width - 0.70
NotifTextWidth == NotifTotalWidth - 640080
\* least heights of the title and the body box, 0.22 in and 0.20 in
NotifMinTitleHeight == 201168
NotifMinBodyHeight == 182880
\* the cursor advance of the notification rule, 2.5 in
NOTIF_ADVANCE == 2286000

\* title_h = max(0.22, min(estimate, row_height * 0.5))
NotifTitleHeight(title) ==
    Max(NotifMinTitleHeight,
        Min(_estimate_text_height(title, 12, NotifTextWidth, LINE_SPACING, TRUE),
            NotifRowHeight \div 2))

\* body_h = max(0.20, min(estimate, row_height - title_h - 0.08))
NotifBodyHeight(title, body) ==
    Max(NotifMinBodyHeight,
        Min(_estimate_text_height(body, 10, NotifTextWidth, LINE_SPACING, FALSE),
            NotifRowHeight - NotifTitleHeight(title) - 73152))

\* the four shapes of one notification: background, icon, title, body
NotificationShapes(notif, ntop) ==
    LET title_h == NotifTitleHeight(notif.title)
        body_h == NotifBodyHeight(notif.title, notif.body)
        icon == IF notif.class = "allowed" THEN <<"v">> ELSE <<"x">>
    IN  << add_filled_box(NotifStartLeft, ntop, NotifTotalWidth, NotifRowHeight),
           add_text_box(icon, NotifStartLeft + 91440, ntop + 45720,
                        320040, 411480, 16, TRUE, TRUE),
           add_text_box(notif.title, NotifStartLeft + 457200, ntop + 36576,
                        NotifTextWidth, title_h, 12, TRUE, TRUE),
           add_text_box(_truncate_to_fit(notif.body, 10, NotifTextWidth, body_h,
                                         FALSE),
                        NotifStartLeft + 457200, ntop + 36576 + title_h,
                        NotifTextWidth, body_h, 10, FALSE, TRUE) >>

\* the shapes of notifications i.. of the stack
RECURSIVE _add_notification_stack(_, _, _)
_add_notification_stack(notifications, i, top) ==
    IF i > Len(notifications) THEN <<>>
    ELSE NotificationShapes(notifications[i],
                            top + (i - 1) * (NotifRowHeight + NotifRowGap))
         \o _add_notification_stack(notifications, i + 1, top)

MaxNotifications == 2

\* 44 W in words of four: more than one line of 10 pt in the notification
\* width
WideText == [i \in 1..54 |-> IF i % 5 = 0 THEN " " ELSE "W"]

NotifTitles == {<<>>, LabelText}
NotifBodies == {<<>>, LabelText, ShortText, Paragraphs(2), WideText}
Notifications ==
    [class : {"allowed", "blocked", "info"}, title : NotifTitles,
     body : NotifBodies]

InitNotifications ==
    /\ pc = "notifications"
    /\ MeasureIdle
    /\ shapes = <<>>
    /\ overflows = <<>>
    /\ overlaps = <<>>
    /\ slide_div = [notifications |-> <<>>]
    /\ slide_num = 1
    /\ current_top = START_TOP
    /\ handled_elements = {}
    /\ grid = NoGrid
    /\ warnings = <<>>
    /\ placed = <<>>
    /\ rendered = {}

\* one more notification in the stack element of the slide
LoadNotification ==
    /\ pc = "notifications"
    /\ Len(slide_div.notifications) < MaxNotifications
    /\ \E notif \in Notifications :
          slide_div' = [notifications |-> Append(slide_div.notifications, notif)]
    /\ UNCHANGED <<pc, measureVars, shapes, overflows, overlaps, slide_num,
                   current_top, handled_elements, grid, warnings, placed,
                   rendered>>

\* notification rule of process_slide
RuleNotificationStack ==
    /\ pc = "notifications"
    /\ shapes' = _add_notification_stack(slide_div.notifications, 1, current_top)
    /\ current_top' = current_top + NOTIF_ADVANCE
    /\ handled_elements' = handled_elements \cup {<<"notification-stack", 1>>}
    /\ pc' = "stats"
    /\ UNCHANGED <<measureVars, overflows, overlaps, slide_div, slide_num, grid,
                   warnings, placed, rendered>>

NextNotifications ==
    \/ LoadNotification
    \/ RuleNotificationStack

SpecNotifications == InitNotifications /\ [][NextNotifications]_vars

\* the body text box of notification i
BodyBox(i) == shapes[4 * i]

SingleLine(body) == NumLines(body, 10, NotifTextWidth, FALSE) = 10

-----------------------------------------------------------------------------
(* Rich text runs: get_rich_text                                           *)
(* An element is the sequence of its text nodes in document order (a <br>  *)
(* is the text node "\n"), each with the names of its ancestors from the   *)
(* innermost outwards; a span carries its class.                           *)

\* " ".join(line.split()) for every line of the node
CollapseLines(t) ==
    LET lines == SplitOn(t, NL)
    IN  Join([k \in 1..Len(lines) |-> Join(SplitWords(lines[k]), <<" ">>)],
             <<NL>>)

\* variant: no text node is left out
SkipNode_Never(t) == FALSE

\* not text or text.isspace(), on the collapsed text
SkipNode(t) == t = <<>> \/ \A k \in 1..Len(t) : IsSpace(t[k])

\* color after the walk up the parent chain: the outermost span with a
\* known class decides
RECURSIVE ChainColor(_, _)
ChainColor(parents, color) ==
    IF parents = <<>> THEN color
    ELSE ChainColor(Tail(parents),
                    IF Head(parents) = "span.highlight" THEN "MS_CYAN"
                    ELSE IF Head(parents) = "span.check" THEN "MS_GREEN"
                    ELSE color)

\* the run of one text node
NodeRun(node) ==
    [text |-> CollapseLines(node.text),
     bold |-> \E k \in 1..Len(node.parents) : node.parents[k] \in {"strong", "b"},
     italic |-> \E k \in 1..Len(node.parents) : node.parents[k] \in {"em", "i"},
     color |-> ChainColor(node.parents, "None")]

\* the runs of the text nodes that are kept
RECURSIVE NodeRuns(_)
NodeRuns(el) ==
    IF el = <<>> THEN <<>>
    ELSE (IF Head(el).text = <<>> \/ SkipNode(CollapseLines(Head(el).text))
          THEN <<>> ELSE <<NodeRun(Head(el))>>)
         \o NodeRuns(Tail(el))

SameFormat(r1, r2) ==
    r1.bold = r2.bold /\ r1.italic = r2.italic /\ r1.color = r2.color

\* adjacent runs of one formatting become one run
RECURSIVE MergeRuns(_, _)
MergeRuns(merged, rest) ==
    IF rest = <<>> THEN merged
    ELSE IF merged # <<>> /\ SameFormat(merged[Len(merged)], Head(rest))
         THEN MergeRuns([merged EXCEPT ![Len(merged)].text = @ \o Head(rest).text],
                        Tail(rest))
         ELSE MergeRuns(Append(merged, Head(rest)), Tail(rest))

\* lstrip of the first run, rstrip of the last, then the empty runs go
StripEnds(merged) ==
    IF merged = <<>> THEN <<>>
    ELSE LET first == [merged EXCEPT ![1].text = LStrip(@)]
             last == [first EXCEPT ![Len(first)].text = RStrip(@)]
         IN  SelectSeq(last, LAMBDA r : r.text # <<>>)

get_rich_text(el) == StripEnds(MergeRuns(<<>>, NodeRuns(el)))

MaxNodes == 3

NodeTexts ==
    {<<" ">>, <<"W">>, <<NL>>, <<NL, "W">>, <<"W", NL>>,
     <<" ", "W", " ", " ", "i">>}
ParentChains ==
    {<<"p">>, <<"strong", "p">>, <<"em", "span.highlight", "p">>,
     <<"span.check", "span.highlight", "p">>}
Nodes == [text : NodeTexts, parents : ParentChains]

InitRichText ==
    /\ pc = "element"
    /\ MeasureIdle
    /\ shapes = <<>>
    /\ overflows = <<>>
    /\ overlaps = <<>>
    /\ SlideIdle

\* one more text node in the element
AppendNode ==
    /\ pc = "element"
    /\ Len(element) < MaxNodes
    /\ \E node \in Nodes : element' = Append(element, node)
    /\ UNCHANGED <<pc, text, font_size_pt, box_width, bold, max_height,
                   truncated, shapes, overflows, overlaps, slide_div,
                   slide_num, current_top, handled_elements, grid, warnings,
                   placed, rendered, runs, soup, source, deck>>

CallGetRichText ==
    /\ pc = "element"
    /\ runs' = get_rich_text(element)
    /\ pc' = "runs"
    /\ UNCHANGED <<text, font_size_pt, box_width, bold, max_height,
                   truncated, shapes, overflows, overlaps, slide_div,
                   slide_num, current_top, handled_elements, grid, warnings,
                   placed, rendered, element, soup, source, deck>>

NextRichText ==
    \/ AppendNode
    \/ CallGetRichText

SpecRichText == InitRichText /\ [][NextRichText]_vars

\* C25: in the runs get_rich_text returns, with the strip of the ends and the
\* removal of empty runs done, no run has empty text and no two neighbours
\* have the same bold, italic and color.
C25_RunsNormalized ==
    pc = "runs" =>
        /\ \A k \in 1..Len(runs) : runs[k].text # <<>>
        /\ \A k \in 1..(Len(runs) - 1) : ~SameFormat(runs[k], runs[k + 1])

\* two nodes of one formatting around a blank node of another have been
\* merged into one run, and the strip has shortened the first run
C25_Witness ==
    /\ pc = "runs"
    /\ Len(element) = 3
    /\ element[1].text = <<NL, "W">>
    /\ element[2].text = <<" ">>
    /\ element[1].parents = element[3].parents
    /\ element[2].parents # element[1].parents
    /\ Len(runs) = 1
    /\ runs[1].text = <<"W">> \o CollapseLines(element[3].text)

\* the strip changes the last run and three formattings stay apart
C25_WitnessThreeRuns ==
    /\ pc = "runs"
    /\ Len(runs) = 3
    /\ element[3].text = <<"W", NL>>
    /\ runs[3].text = <<"W">>

-----------------------------------------------------------------------------
(* Principles and the shared tree: _add_principles, convert                *)
(* A principle is its principle-number (none or one text) and the children *)
(* of its principle-content (none when the element is missing), each a tag *)
(* name, or "text" for a bare string, and its text.  The tree is the       *)
(* sequence of the slide elements in document order; parent is the number  *)
(* of the slide element a slide element lies in, or 0.                     *)

\* get_text of an element with these children: the texts joined by a blank,
\* blanks collapsed, the ends stripped
ChildrenText(children) ==
    Strip(CollapseLines(Join([k \in 1..Len(children) |-> children[k].text],
                             <<" ">>)))

\* element.find(tag): the first child with the tag, as a sequence of its
\* position or the empty sequence
FindTag(children, tag) ==
    LET hits == {k \in 1..Len(children) : children[k].tag = tag}
    IN  IF hits = {} THEN <<>>
        ELSE << CHOOSE k \in hits : \A j \in hits : k <= j >>

\* s without its k-th element
Without(s, k) == SubSeq(s, 1, k - 1) \o SubSeq(s, k + 1, Len(s))

\* the principle takes its title from a <strong> that strong.extract() is
\* called on
ExtractsStrong(principle) ==
    /\ principle.content # <<>>
    /\ FindTag(principle.content[1], "h3") = <<>>
    /\ FindTag(principle.content[1], "strong") # <<>>

\* the principle element when the first pass of _add_principles is through
AfterFirstPass(principle) ==
    IF ExtractsStrong(principle)
    THEN [principle EXCEPT
            !.content = << Without(principle.content[1],
                                   FindTag(principle.content[1], "strong")[1]) >>]
    ELSE principle

\* str(i + 1) for the principles of a slide
DigitText(i) == << <<"1">>, <<"2">>, <<"3">>, <<"4">>, <<"5">>, <<"6">> >>[i]

\* (full_title, desc) of the i-th principle
PrincipleItem(principle, i) ==
    LET number == IF principle.number # <<>> THEN principle.number[1]
                  ELSE DigitText(i)
        children == IF principle.content = <<>> THEN <<>>
                    ELSE principle.content[1]
        h3 == FindTag(children, "h3")
        p_tag == FindTag(children, "p")
        strong == FindTag(children, "strong")
        title == IF principle.content = <<>> THEN <<>>
                 ELSE IF h3 # <<>> THEN children[h3[1]].text
                 ELSE IF strong # <<>> THEN children[strong[1]].text
                 ELSE IF p_tag # <<>> THEN children[p_tag[1]].text
                 ELSE ChildrenText(children)
        desc == IF principle.content = <<>> THEN <<>>
                ELSE IF h3 # <<>>
                     THEN (IF p_tag # <<>> THEN children[p_tag[1]].text
                           ELSE <<>>)
                ELSE IF strong # <<>>
                     THEN ChildrenText(Without(children, strong[1]))
                ELSE <<>>
    IN  [full_title |-> number \o <<".", " ">> \o title, desc |-> desc]

\* col_width = CONTENT_WIDTH / 2 - 0.1, text_inner_w = col_width - 0.35
PrincipleColWidth == CONTENT_WIDTH \div 2 - 91440
PrincipleTextWidth == PrincipleColWidth - 320040
\* the least row height 0.85 in, and row_gap = 0.1 in
PRINCIPLE_MIN_ROW == 777240
PRINCIPLE_ROW_GAP == 91440

\* need of one item: top pad + title + gap + description + bottom pad
PrincipleNeed(item) ==
    73152
    + _estimate_text_height(item.full_title, 14, PrincipleTextWidth,
                            LINE_SPACING, TRUE)
    + GAP_TIGHT
    + (IF item.desc # <<>>
       THEN _estimate_text_height(item.desc, 11, PrincipleTextWidth,
                                  LINE_SPACING, FALSE)
       ELSE 0)
    + 45720

RECURSIVE PrincipleRowHeight(_, _)
PrincipleRowHeight(principles, i) ==
    IF i > Len(principles) THEN PRINCIPLE_MIN_ROW
    ELSE Max(PrincipleNeed(PrincipleItem(principles[i], i)),
             PrincipleRowHeight(principles, i + 1))

RECURSIVE PrincipleBoxes(_, _, _, _)
PrincipleBoxes(principles, i, top, row_height) ==
    IF i > Len(principles) THEN <<>>
    ELSE LET item == PrincipleItem(principles[i], i)
         IN  add_tenet(item.full_title, item.desc,
                       CONTENT_LEFT
                         + ((i - 1) % 2) * (PrincipleColWidth + 182880),
                       top + ((i - 1) \div 2)
                               * (row_height + PRINCIPLE_ROW_GAP),
                       PrincipleColWidth, row_height)
             \o PrincipleBoxes(principles, i + 1, top, row_height)

\* the shapes _add_principles draws
_add_principles(principles, top) ==
    PrincipleBoxes(principles, 1, top, PrincipleRowHeight(principles, 1))

\* slide element j lies in slide element k
RECURSIVE Inside(_, _, _)
Inside(tree, j, k) ==
    /\ tree[j].parent # 0
    /\ (tree[j].parent = k \/ Inside(tree, tree[j].parent, k))

\* the slide elements slide_div.find_all reaches from slide element k: k and
\* the slide elements in it
Reached(tree, k) == {j \in 1..Len(tree) : j = k \/ Inside(tree, j, k)}

\* slide_div.find_all(class_="principle") for slide element k; a slide
\* element in another one comes after the principles of the outer one
RECURSIVE FindPrinciples(_, _, _)
FindPrinciples(tree, k, j) ==
    IF j > Len(tree) THEN <<>>
    ELSE (IF j \in Reached(tree, k) THEN tree[j].principles ELSE <<>>)
         \o FindPrinciples(tree, k, j + 1)

\* the shapes of process_slide for slide element k, which holds principles
\* and nothing else: the cursor starts at 0.6 in
SlideShapes(tree, k) == _add_principles(FindPrinciples(tree, k, k), START_TOP)

\* the tree when process_slide has returned for slide element k
TreeAfterSlide(tree, k) ==
    [j \in 1..Len(tree) |->
        IF j \in Reached(tree, k)
        THEN [tree[j] EXCEPT
                !.principles = [i \in 1..Len(tree[j].principles) |->
                                   AfterFirstPass(tree[j].principles[i])]]
        ELSE tree[j]]

MaxSlides == 2

TitleText == <<"W">>
\* <h3>, <strong> followed by a bare text, <p>, bare text, no content element
ContentH3 == << <<[tag |-> "h3", text |-> TitleText],
                  [tag |-> "p", text |-> ShortText]>> >>
ContentStrong == << <<[tag |-> "strong", text |-> TitleText],
                      [tag |-> "text", text |-> ShortText]>> >>
ContentP == << <<[tag |-> "p", text |-> ShortText]>> >>
ContentText == << <<[tag |-> "text", text |-> ShortText]>> >>
Principle(number, content) == [number |-> number, content |-> content]
PrincipleLists ==
    {<<>>,
     <<Principle(<<>>, ContentH3)>>,
     <<Principle(<<>>, ContentStrong)>>,
     <<Principle(<<LabelText>>, ContentP), Principle(<<>>, ContentStrong)>>,
     <<Principle(<<>>, ContentText), Principle(<<>>, <<>>)>>}

InitDeck ==
    /\ pc = "parse"
    /\ MeasureIdle
    /\ shapes = <<>>
    /\ overflows = <<>>
    /\ overlaps = <<>>
    /\ slide_div = NoSlide
    /\ slide_num = 0
    /\ current_top = 0
    /\ handled_elements = {}
    /\ grid = NoGrid
    /\ warnings = <<>>
    /\ placed = <<>>
    /\ rendered = {}

\* BeautifulSoup(html_content): one more slide element in the tree
ParseSlide ==
    /\ pc = "parse"
    /\ Len(soup) < MaxSlides
    /\ \E principles \in PrincipleLists, parent \in 0..Len(soup) :
          soup' = Append(soup, [principles |-> principles, parent |-> parent])
    /\ source' = soup'
    /\ UNCHANGED <<pc, text, font_size_pt, box_width, bold, max_height,
                   truncated, shapes, overflows, overlaps, slide_div,
                   slide_num, current_top, handled_elements, grid, warnings,
                   placed, rendered, element, runs, deck>>

\* convert: process_slide for the next slide element of extract_slides
ConvertSlide ==
    /\ pc \in {"parse", "convert"}
    /\ slide_num < Len(soup)
    /\ slide_num' = slide_num + 1
    /\ deck' = Append(deck, SlideShapes(soup, slide_num + 1))
    /\ soup' = TreeAfterSlide(soup, slide_num + 1)
    /\ pc' = "convert"
    /\ UNCHANGED <<text, font_size_pt, box_width, bold, max_height,
                   truncated, shapes, overflows, overlaps, slide_div,
                   current_top, handled_elements, grid, warnings,
                   placed, rendered, element, runs, source>>

NextDeck ==
    \/ ParseSlide
    \/ ConvertSlide

SpecDeck == InitDeck /\ [][NextDeck]_vars

\* C24: when process_slide has returned, the element tree is what it was
\* before the call, also for principles whose content starts with a bold
\* title.
C24_TreeUnchanged == pc = "convert" => soup = source

\* C23: the shapes of every slide of the deck are the shapes process_slide
\* produces for that slide element alone, on the tree as it was parsed,
\* whatever slides were processed before it.
C23_SlidesIndependent ==
    \A k \in 1..Len(deck) : deck[k] = SlideShapes(source, k)

\* the same for a tree in which no slide element lies in another one
SlidesIndependentWhenFlat ==
    (\A k \in 1..Len(source) : source[k].parent = 0)
        => \A k \in 1..Len(deck) : deck[k] = SlideShapes(source, k)

====
